---- MODULE Spec2Model ----
(***************************************************************************)
(* Per-actuator scheduling engine of servoscheduler: the slot table and    *)
(* its mutation API (actuator.rs), the overlap predicates (schedule.rs,    *)
(* time.rs, utils.rs), the ActiveTimeSlot summary with its incremental     *)
(* updates, and the worker thread with the two locks it shares with the    *)
(* RPC handlers.                                                           *)
(***************************************************************************)
EXTENDS Integers, Sequences, FiniteSets, TLC

\* ------------------------------------------------------------------------
\* Bounds of the model
\* ------------------------------------------------------------------------

\* add_time_slot is offered while next_timeslot_id < MaxTimeSlots
MaxTimeSlots == 2
\* time_slot_add_time_override is offered while next_override_id < MaxOverrides
MaxOverrides == 2
\* the wall clock stops after the last minute of day FirstDay + MaxDays - 1
MaxDays == 2
\* RPC calls accepted in one behaviour of the full (threaded) specification
MaxCalls == 2
MaxTableCalls == 3
\* steps of the clock that a thread with a step to take may miss in a row
MaxLag == 1
\* Server::add_actuator is offered while next_actuator_id < MaxActuators
MaxActuators == 2
MaxRemovalCalls == 5
MaxReferenceCalls == 3

\* ------------------------------------------------------------------------
\* time.rs: Time with the 04:00-shifted order
\* ------------------------------------------------------------------------

DAY_START_HOUR == 4

Time(h, m) == [hour |-> h, minute |-> m]

TimeEMPTY == Time(25, 0)

\* Time::MIN / Time::MAX: first and last minute of the shifted day
TimeMIN == Time(DAY_START_HOUR, 0)
TimeMAX == Time(DAY_START_HOUR - 1, 59)

\* u8 arithmetic; hour + 24 - 4 never exceeds 255 for the hours used
\* hours compared as they are, the day starting at midnight
hour_unshifted(t) == t.hour % 24

shifted_hour(t) == ((t.hour + 24 - DAY_START_HOUR) % 256) % 24

TimeValid(t) == t.hour < 24 /\ t.minute < 60

\* Ord for Time: -1, 0, 1
TimeCmp(a, b) ==
    IF shifted_hour(a) < shifted_hour(b) THEN -1
    ELSE IF shifted_hour(a) > shifted_hour(b) THEN 1
    ELSE IF a.minute < b.minute THEN -1
    ELSE IF a.minute > b.minute THEN 1
    ELSE 0

TimeLT(a, b) == TimeCmp(a, b) < 0
TimeLE(a, b) == TimeCmp(a, b) <= 0

\* minutes since the start of the shifted day
ShiftedMinutes(t) == shifted_hour(t) * 60 + t.minute

\* Time::sub_minute: signed difference in minutes under the shifted order
sub_minute(a, b) == ShiftedMinutes(a) - ShiftedMinutes(b)

\* ------------------------------------------------------------------------
\* utils.rs: ExclusiveRange<Time> (TimeInterval), InclusiveRange<Date>
\* ------------------------------------------------------------------------

TimeInterval(s, e) == [start |-> s, end |-> e]

TimeIntervalOverlaps(a, b) == TimeLT(a.start, b.end) /\ TimeLT(b.start, a.end)

TimeIntervalContains(r, t) == TimeLE(r.start, t) /\ TimeLT(t, r.end)

\* an interval checked for the order of its ends only
TimeIntervalOrdered(r) == TimeLT(r.start, r.end)

TimeIntervalValid(r) == TimeValid(r.start) /\ TimeValid(r.end) /\ TimeLT(r.start, r.end)

\* Dates are day numbers counted from 0001-01-01 (a Monday), the date that
\* Date::empty_date() returns.
EmptyDate == 0
DateMIN == -95746496
DateMAX == 95745763

DateValid(d) == d # EmptyDate

DateRange(s, e) == [start |-> s, end |-> e]

Max2(a, b) == IF a >= b THEN a ELSE b
Min2(a, b) == IF a <= b THEN a ELSE b

NoRange == [some |-> FALSE, start |-> 0, end |-> 0]

DateRangeIntersection(a, b) ==
    LET start == Max2(a.start, b.start)
        end == Min2(a.end, b.end)
    IN IF start <= end THEN [some |-> TRUE, start |-> start, end |-> end]
       ELSE NoRange

DateRangeContains(r, d) == r.start <= d /\ d <= r.end

DateRangeValid(r) == DateValid(r.start) /\ DateValid(r.end) /\ r.start <= r.end

\* ------------------------------------------------------------------------
\* time.rs: WeekdaySet (bit i = weekday i counted from Monday), weekday_set
\* ------------------------------------------------------------------------

AllDays == 0 .. 6

WeekdayIsAll(s) == s = AllDays

\* chrono's weekday().num_days_from_monday()
num_days_from_monday(d) == d % 7

\* ((1 << (end - start + 1)) - 1) << start, as the set of the bits that are set
bit_range(start, end) == {i \in 0 .. 7 : start <= i /\ i <= end}

\* a weekday_set that runs past Sunday instead of wrapping to Monday
weekday_set_unwrapped(r) ==
    LET start_day == num_days_from_monday(r.start)
        num_day_diff == r.end - r.start
    IN IF num_day_diff >= 6 THEN AllDays
       ELSE bit_range(start_day, Min2(start_day + num_day_diff, 6))

\* DateRange::weekday_set; from_bits fails on bit 7, which is never set here.
\* The cast of the day count to u32 changes nothing: an intersection has
\* start <= end and DateMAX - DateMIN is below 2^32.
weekday_set(r) ==
    LET start_day == num_days_from_monday(r.start)
        num_day_diff == r.end - r.start
    IN IF num_day_diff >= 6 THEN AllDays
       ELSE IF start_day + num_day_diff <= 6
            THEN bit_range(start_day, start_day + num_day_diff)
            ELSE bit_range(start_day, 6) \cup bit_range(0, (start_day + num_day_diff) % 7)

\* ------------------------------------------------------------------------
\* schedule.rs: TimePeriod, TimeSlot
\* ------------------------------------------------------------------------

TimePeriod(ti, dr, days) == [time_interval |-> ti, date_range |-> dr, days |-> days]

\* an overlap on dates that looks at the date ranges only
overlaps_date_ranges(self, other) ==
    DateRangeIntersection(self.date_range, other.date_range).some

overlaps_dates(self, other) ==
    LET intersection == DateRangeIntersection(self.date_range, other.date_range)
    IN IF intersection.some
       THEN IF WeekdayIsAll(self.days) /\ WeekdayIsAll(other.days)
            THEN TRUE
            ELSE (weekday_set(intersection) \cap self.days \cap other.days) # {}
       ELSE FALSE

TimePeriodOverlaps(self, other) ==
    overlaps_dates(self, other) /\ TimeIntervalOverlaps(self.time_interval, other.time_interval)

TimePeriodValid(p) ==
    TimeIntervalValid(p.time_interval) /\ DateRangeValid(p.date_range) /\ p.days # {}

NoOverrides == [o \in {} |-> 0]

TimeSlotNew(enabled, actuator_state, time_period) ==
    [enabled |-> enabled, actuator_state |-> actuator_state,
     time_period |-> time_period, time_override |-> NoOverrides]

TimeSlotOverlaps(self, time_period) ==
    IF overlaps_dates(self.time_period, time_period)
    THEN \/ TimeIntervalOverlaps(self.time_period.time_interval, time_period.time_interval)
         \/ \E o \in DOMAIN self.time_override :
                TimePeriodOverlaps(self.time_override[o], time_period)
    ELSE FALSE

\* a period applies on a date: the date is in its range and on one of its days
PeriodCovers(p, d) ==
    DateRangeContains(p.date_range, d) /\ num_days_from_monday(d) \in p.days

None == -1

SetMin(S) == CHOOSE x \in S : \A y \in S : x <= y

NoInterval == [some |-> FALSE, time_interval |-> TimeInterval(TimeMIN, TimeMIN),
               override_id |-> None]

\* an effective interval that prefers the base period to the overrides
time_interval_on_base_first(slot, date) ==
    LET covering == {o \in DOMAIN slot.time_override :
                        PeriodCovers(slot.time_override[o], date)}
    IN IF PeriodCovers(slot.time_period, date)
       THEN [some |-> TRUE, time_interval |-> slot.time_period.time_interval,
             override_id |-> None]
       ELSE IF covering # {}
            THEN [some |-> TRUE,
                  time_interval |-> slot.time_override[SetMin(covering)].time_interval,
                  override_id |-> SetMin(covering)]
            ELSE NoInterval

\* TimeSlot::time_interval_on: the slot's effective interval on a date
time_interval_on(slot, date) ==
    LET covering == {o \in DOMAIN slot.time_override :
                        PeriodCovers(slot.time_override[o], date)}
    IN IF covering # {}
       THEN [some |-> TRUE,
             time_interval |-> slot.time_override[SetMin(covering)].time_interval,
             override_id |-> SetMin(covering)]
       ELSE IF PeriodCovers(slot.time_period, date)
            THEN [some |-> TRUE, time_interval |-> slot.time_period.time_interval,
                  override_id |-> None]
            ELSE NoInterval

NoSlot == [some |-> FALSE]

\* a search for the next slot that does not read the enabled flag
find_next_timeslot_of_all(timeslots, now) ==
    LET cand == {i \in DOMAIN timeslots :
                    /\ time_interval_on(timeslots[i], now.date).some
                    /\ TimeLE(now.time,
                              time_interval_on(timeslots[i], now.date).time_interval.start)}
        start(i) == time_interval_on(timeslots[i], now.date).time_interval.start
        best == {i \in cand : \A j \in cand :
                    TimeLT(start(i), start(j)) \/ (start(i) = start(j) /\ i <= j)}
    IN IF cand = {} THEN NoSlot
       ELSE LET i == SetMin(best)
            IN [some |-> TRUE,
                time_interval |-> time_interval_on(timeslots[i], now.date).time_interval,
                actuator_state |-> timeslots[i].actuator_state,
                id |-> i,
                override_id |-> time_interval_on(timeslots[i], now.date).override_id]

\* schedule::find_next_timeslot: the enabled slot with the smallest effective
\* start >= now.time on now.date, ties broken by the smaller slot id
find_next_timeslot(timeslots, now) ==
    LET cand == {i \in DOMAIN timeslots :
                    /\ timeslots[i].enabled
                    /\ time_interval_on(timeslots[i], now.date).some
                    /\ TimeLE(now.time,
                              time_interval_on(timeslots[i], now.date).time_interval.start)}
        start(i) == time_interval_on(timeslots[i], now.date).time_interval.start
        best == {i \in cand : \A j \in cand :
                    TimeLT(start(i), start(j)) \/ (start(i) = start(j) /\ i <= j)}
    IN IF cand = {} THEN NoSlot
       ELSE LET i == SetMin(best)
            IN [some |-> TRUE,
                time_interval |-> time_interval_on(timeslots[i], now.date).time_interval,
                actuator_state |-> timeslots[i].actuator_state,
                id |-> i,
                override_id |-> time_interval_on(timeslots[i], now.date).override_id]

\* ------------------------------------------------------------------------
\* actuator.rs: ActuatorType, ActuatorState, rpc::Error
\* ------------------------------------------------------------------------

Toggle(v) == [tag |-> "Toggle", value |-> v]
FloatValue(v) == [tag |-> "FloatValue", value |-> v]

TypeToggle == [tag |-> "Toggle", min |-> 0, max |-> 0]
TypeFloat(lo, hi) == [tag |-> "FloatValue", min |-> lo, max |-> hi]

\* valid_state looking at the variant only
valid_state_any_value(ty, state) ==
    IF ty.tag = "Toggle" THEN state.tag = "Toggle" ELSE state.tag = "FloatValue"

\* valid_state with the bounds excluded
valid_state_open_range(ty, state) ==
    IF ty.tag = "Toggle"
    THEN state.tag = "Toggle"
    ELSE IF state.tag = "FloatValue"
         THEN ty.min < state.value /\ state.value < ty.max
         ELSE FALSE

valid_state(ty, state) ==
    IF ty.tag = "Toggle"
    THEN state.tag = "Toggle"
    ELSE IF state.tag = "FloatValue"
         THEN ty.min <= state.value /\ state.value <= ty.max
         ELSE FALSE

Ok(v) == [tag |-> "Ok", kind |-> "", id |-> v]
InvalidArgument(k) == [tag |-> "InvalidArgument", kind |-> k, id |-> None]
TimeSlotOverlap(i) == [tag |-> "TimeSlotOverlap", kind |-> "", id |-> i]
TimeOverrideOverlap(o) == [tag |-> "TimeOverrideOverlap", kind |-> "", id |-> o]

IsErr(res) == res.tag # "Ok"

\* which update of the ActiveTimeSlot a handler hands to
\* update_active_timeslot_and_notify once the table is changed
Update(kind, id) == [kind |-> kind, id |-> id]
NoUpdate == Update("none", None)

\* what a handler leaves behind: its result, the Actuator fields, the update
Outcome(res, self, update) == [res |-> res, self |-> self, update |-> update]

\* BTreeMap insert / remove
MapInsert(m, k, v) == [x \in DOMAIN m \cup {k} |-> IF x = k THEN v ELSE m[x]]
MapRemove(m, k) == [x \in DOMAIN m \ {k} |-> m[x]]

SetMax(S) == CHOOSE x \in S : \A y \in S : x >= y

\* the loop over self.timeslots run to its end: the last slot that overlaps
LastOverlap(timeslots, skip, time_period) ==
    LET hit == {i \in DOMAIN timeslots \ {skip} : TimeSlotOverlaps(timeslots[i], time_period)}
    IN IF hit = {} THEN None ELSE SetMax(hit)

\* the loop over self.timeslots in id order, skipping `skip`: the first slot
\* that overlaps the period, or None
FirstOverlap(timeslots, skip, time_period) ==
    LET hit == {i \in DOMAIN timeslots \ {skip} : TimeSlotOverlaps(timeslots[i], time_period)}
    IN IF hit = {} THEN None ELSE SetMin(hit)

\* set_default_state storing the state before it validates it
set_default_state_unchecked(self, ty, default_state) ==
    IF ~valid_state(ty, default_state)
    THEN Outcome(InvalidArgument("ActuatorState"),
                 [self EXCEPT !.default_state = default_state], NoUpdate)
    ELSE Outcome(Ok(None), [self EXCEPT !.default_state = default_state],
                 Update("default", None))

set_default_state(self, ty, default_state) ==
    IF ~valid_state(ty, default_state)
    THEN Outcome(InvalidArgument("ActuatorState"), self, NoUpdate)
    ELSE Outcome(Ok(None), [self EXCEPT !.default_state = default_state],
                 Update("default", None))

\* add_time_slot taking its id from the counter before the overlap check
add_time_slot_eager_id(self, ty, time_period, actuator_state, enabled) ==
    IF ~TimePeriodValid(time_period)
    THEN Outcome(InvalidArgument("TimePeriod"), self, NoUpdate)
    ELSE IF ~valid_state(ty, actuator_state)
    THEN Outcome(InvalidArgument("ActuatorState"), self, NoUpdate)
    ELSE IF FirstOverlap(self.timeslots, None, time_period) # None
    THEN Outcome(TimeSlotOverlap(FirstOverlap(self.timeslots, None, time_period)),
                 [self EXCEPT !.next_timeslot_id = @ + 1], NoUpdate)
    ELSE LET id == self.next_timeslot_id
         IN Outcome(Ok(id),
                    [self EXCEPT
                        !.timeslots = MapInsert(@, id,
                                        TimeSlotNew(enabled, actuator_state, time_period)),
                        !.next_timeslot_id = @ + 1],
                    Update("added", id))

add_time_slot(self, ty, time_period, actuator_state, enabled) ==
    IF ~TimePeriodValid(time_period)
    THEN Outcome(InvalidArgument("TimePeriod"), self, NoUpdate)
    ELSE IF ~valid_state(ty, actuator_state)
    THEN Outcome(InvalidArgument("ActuatorState"), self, NoUpdate)
    ELSE IF FirstOverlap(self.timeslots, None, time_period) # None
    THEN Outcome(TimeSlotOverlap(FirstOverlap(self.timeslots, None, time_period)),
                 self, NoUpdate)
    ELSE LET id == self.next_timeslot_id
         IN Outcome(Ok(id),
                    [self EXCEPT
                        !.timeslots = MapInsert(@, id,
                                        TimeSlotNew(enabled, actuator_state, time_period)),
                        !.next_timeslot_id = @ + 1],
                    Update("added", id))

remove_time_slot(self, time_slot_id) ==
    IF time_slot_id \notin DOMAIN self.timeslots
    THEN Outcome(InvalidArgument("TimeSlotId"), self, NoUpdate)
    ELSE Outcome(Ok(None),
                 [self EXCEPT !.timeslots = MapRemove(@, time_slot_id)],
                 Update("removed", time_slot_id))

\* a patch that cannot change the weekdays
PatchedPeriodKeepingDays(old, time_period) ==
    TimePeriod(
        TimeInterval(
            IF time_period.time_interval.start # TimeEMPTY
            THEN time_period.time_interval.start ELSE old.time_interval.start,
            IF time_period.time_interval.end # TimeEMPTY
            THEN time_period.time_interval.end ELSE old.time_interval.end),
        DateRange(
            IF time_period.date_range.start # EmptyDate
            THEN time_period.date_range.start ELSE old.date_range.start,
            IF time_period.date_range.end # EmptyDate
            THEN time_period.date_range.end ELSE old.date_range.end),
        old.days)

\* the patch applied to the slot's period: every field that is not its empty
\* sentinel replaces the stored one
PatchedPeriod(old, time_period) ==
    TimePeriod(
        TimeInterval(
            IF time_period.time_interval.start # TimeEMPTY
            THEN time_period.time_interval.start ELSE old.time_interval.start,
            IF time_period.time_interval.end # TimeEMPTY
            THEN time_period.time_interval.end ELSE old.time_interval.end),
        DateRange(
            IF time_period.date_range.start # EmptyDate
            THEN time_period.date_range.start ELSE old.date_range.start,
            IF time_period.date_range.end # EmptyDate
            THEN time_period.date_range.end ELSE old.date_range.end),
        IF time_period.days # {} THEN time_period.days ELSE old.days)

time_slot_set_time_period(self, time_slot_id, time_period) ==
    IF FirstOverlap(self.timeslots, time_slot_id, time_period) # None
    THEN Outcome(TimeSlotOverlap(FirstOverlap(self.timeslots, time_slot_id, time_period)),
                 self, NoUpdate)
    ELSE IF time_slot_id \notin DOMAIN self.timeslots
    THEN Outcome(InvalidArgument("TimeSlotId"), self, NoUpdate)
    ELSE LET new_time_period ==
                 PatchedPeriod(self.timeslots[time_slot_id].time_period, time_period)
         IN IF ~TimePeriodValid(new_time_period)
            THEN Outcome(InvalidArgument("TimePeriod"), self, NoUpdate)
            ELSE Outcome(Ok(None),
                         [self EXCEPT !.timeslots[time_slot_id].time_period = new_time_period],
                         Update("modified", time_slot_id))

time_slot_set_enabled(self, time_slot_id, enabled) ==
    IF time_slot_id \notin DOMAIN self.timeslots
    THEN Outcome(InvalidArgument("TimeSlotId"), self, NoUpdate)
    ELSE LET old_enabled == self.timeslots[time_slot_id].enabled
         IN Outcome(Ok(None),
                    [self EXCEPT !.timeslots[time_slot_id].enabled = enabled],
                    IF old_enabled # enabled
                    THEN (IF enabled THEN Update("added", time_slot_id)
                          ELSE Update("removed", time_slot_id))
                    ELSE NoUpdate)

time_slot_set_actuator_state(self, ty, time_slot_id, actuator_state) ==
    IF ~valid_state(ty, actuator_state)
    THEN Outcome(InvalidArgument("ActuatorState"), self, NoUpdate)
    ELSE IF time_slot_id \notin DOMAIN self.timeslots
    THEN Outcome(InvalidArgument("TimeSlotId"), self, NoUpdate)
    ELSE Outcome(Ok(None),
                 [self EXCEPT !.timeslots[time_slot_id].actuator_state = actuator_state],
                 Update("state", time_slot_id))

\* a weaker check of the overrides: on dates and time, as between slots
FirstOverrideOverlapOnTime(slot, time_period) ==
    LET hit == {o \in DOMAIN slot.time_override :
                   TimePeriodOverlaps(slot.time_override[o], time_period)}
    IN IF hit = {} THEN None ELSE SetMin(hit)

\* the loop over the target's overrides in id order: the first one that
\* overlaps the period on dates, or None
FirstOverrideOverlap(slot, time_period) ==
    LET hit == {o \in DOMAIN slot.time_override :
                   overlaps_dates(slot.time_override[o], time_period)}
    IN IF hit = {} THEN None ELSE SetMin(hit)

time_slot_add_time_override(self, time_slot_id, time_period) ==
    IF ~TimePeriodValid(time_period)
    THEN Outcome(InvalidArgument("TimePeriod"), self, NoUpdate)
    ELSE IF FirstOverlap(self.timeslots, time_slot_id, time_period) # None
    THEN Outcome(TimeSlotOverlap(FirstOverlap(self.timeslots, time_slot_id, time_period)),
                 self, NoUpdate)
    ELSE IF time_slot_id \notin DOMAIN self.timeslots
    THEN Outcome(InvalidArgument("TimeSlotId"), self, NoUpdate)
    ELSE IF FirstOverrideOverlap(self.timeslots[time_slot_id], time_period) # None
    THEN Outcome(TimeOverrideOverlap(
                     FirstOverrideOverlap(self.timeslots[time_slot_id], time_period)),
                 self, NoUpdate)
    ELSE LET new_override_id == self.next_override_id
         IN Outcome(Ok(new_override_id),
                    [self EXCEPT
                        !.timeslots[time_slot_id].time_override =
                            MapInsert(@, new_override_id, time_period),
                        !.next_override_id = @ + 1],
                    Update("modified", time_slot_id))

\* a removal that looks the override up on every slot once the slot is found
time_slot_remove_time_override_anywhere(self, time_slot_id, time_override_id) ==
    IF time_slot_id \notin DOMAIN self.timeslots
    THEN Outcome(InvalidArgument("TimeSlotId"), self, NoUpdate)
    ELSE IF \A i \in DOMAIN self.timeslots :
                time_override_id \notin DOMAIN self.timeslots[i].time_override
    THEN Outcome(InvalidArgument("TimeOverrideId"), self, NoUpdate)
    ELSE Outcome(Ok(None),
                 [self EXCEPT !.timeslots =
                     [i \in DOMAIN @ |->
                         [@[i] EXCEPT !.time_override =
                             [o \in DOMAIN @ \ {time_override_id} |-> @[o]]]]],
                 Update("modified", time_slot_id))

\* Actuator::time_slot_remove_time_override
time_slot_remove_time_override(self, time_slot_id, time_override_id) ==
    IF time_slot_id \notin DOMAIN self.timeslots
    THEN Outcome(InvalidArgument("TimeSlotId"), self, NoUpdate)
    ELSE IF time_override_id \notin DOMAIN self.timeslots[time_slot_id].time_override
    THEN Outcome(InvalidArgument("TimeOverrideId"), self, NoUpdate)
    ELSE Outcome(Ok(None),
                 [self EXCEPT !.timeslots[time_slot_id].time_override =
                                   MapRemove(@, time_override_id)],
                 Update("modified", time_slot_id))

\* ------------------------------------------------------------------------
\* actuator.rs: ActiveTimeSlot
\* ------------------------------------------------------------------------

\* ActiveTimeSlotState: for DefaultStateActive, id and override_id hold
\* next_id and next_override_id
TimeSlotActive(id, override_id) ==
    [tag |-> "TimeSlotActive", id |-> id, override_id |-> override_id]
DefaultStateActive(next_id, next_override_id) ==
    [tag |-> "DefaultStateActive", id |-> next_id, override_id |-> next_override_id]

ActiveTimeSlot(state, end_time, actuator_state) ==
    [state |-> state, end_time |-> end_time, actuator_state |-> actuator_state]

ats_timeslot(id, override_id, end_time, actuator_state) ==
    ActiveTimeSlot(TimeSlotActive(id, override_id), end_time, actuator_state)

ats_default_state(actuator_state) ==
    ActiveTimeSlot(DefaultStateActive(None, None), TimeMAX, actuator_state)

ats_default_state_until(next_id, next_override_id, end_time, actuator_state) ==
    ActiveTimeSlot(DefaultStateActive(next_id, next_override_id), end_time, actuator_state)

compute(now, timeslots, default_state) ==
    LET slot == find_next_timeslot(timeslots, now)
    IN IF slot.some
       THEN IF slot.time_interval.start = now.time
            THEN ats_timeslot(slot.id, slot.override_id, slot.time_interval.end,
                              slot.actuator_state)
            ELSE ats_default_state_until(slot.id, slot.override_id,
                                         slot.time_interval.start, default_state)
       ELSE ats_default_state(default_state)

update_timeslot_added(self, timeslot, id, now) ==
    LET today == time_interval_on(timeslot, now.date)
    IN IF self.state.tag = "DefaultStateActive" /\ today.some
       THEN IF TimeIntervalContains(today.time_interval, now.time)
            THEN ats_timeslot(id, today.override_id, today.time_interval.end,
                              timeslot.actuator_state)
            ELSE IF /\ TimeLT(now.time, today.time_interval.start)
                    /\ TimeLT(today.time_interval.start, self.end_time)
                 THEN ats_default_state_until(id, today.override_id,
                                              today.time_interval.start, self.actuator_state)
                 ELSE self
       ELSE self

\* a removal that leaves the active timeslot as it is
update_timeslot_removed_kept(self, timeslot_id, timeslots, default_state, now) == self

\* ActiveTimeSlot::update_timeslot_removed
update_timeslot_removed(self, timeslot_id, timeslots, default_state, now) ==
    LET recompute ==
            \/ self.state.tag = "TimeSlotActive" /\ self.state.id = timeslot_id
            \/ self.state.tag = "DefaultStateActive" /\ self.state.id = timeslot_id
    IN IF recompute THEN compute(now, timeslots, default_state) ELSE self

update_timeslot_modified(self, timeslot, timeslot_id, timeslots, default_state, now) ==
    LET today == time_interval_on(timeslot, now.date)
        was_active == self.state.tag = "TimeSlotActive" /\ self.state.id = timeslot_id
        was_next == self.state.tag = "DefaultStateActive" /\ self.state.id = timeslot_id
    IN IF today.some
       THEN IF TimeIntervalContains(today.time_interval, now.time)
            THEN ats_timeslot(timeslot_id, today.override_id, today.time_interval.end,
                              timeslot.actuator_state)
            ELSE IF was_active
                 THEN compute(now, timeslots, default_state)
                 ELSE IF self.state.tag = "DefaultStateActive"
                      THEN IF /\ TimeLT(now.time, today.time_interval.start)
                              /\ TimeLE(today.time_interval.start, self.end_time)
                           THEN ats_default_state_until(timeslot_id, today.override_id,
                                                        today.time_interval.start,
                                                        self.actuator_state)
                           ELSE IF was_next
                                THEN compute(now, timeslots, default_state)
                                ELSE self
                      ELSE self
       ELSE IF was_active \/ was_next
            THEN compute(now, timeslots, default_state)
            ELSE self

\* the updates of the handlers, a new default state being taken over even
\* while a slot is active
ApplyUpdateOverActiveSlot(update, active_timeslot, a, now) ==
    IF update.kind = "default"
    THEN [active_timeslot EXCEPT !.actuator_state = a.default_state]
    ELSE IF update.kind = "state"
    THEN IF active_timeslot.state.tag = "TimeSlotActive" /\ active_timeslot.state.id = update.id
         THEN [active_timeslot EXCEPT !.actuator_state = a.timeslots[update.id].actuator_state]
         ELSE active_timeslot
    ELSE IF update.kind = "added"
    THEN update_timeslot_added(active_timeslot, a.timeslots[update.id], update.id, now)
    ELSE IF update.kind = "removed"
    THEN update_timeslot_removed(active_timeslot, update.id, a.timeslots, a.default_state, now)
    ELSE IF update.kind = "modified"
    THEN update_timeslot_modified(active_timeslot, a.timeslots[update.id], update.id,
                                  a.timeslots, a.default_state, now)
    ELSE active_timeslot

\* the closure a handler passes to update_active_timeslot_and_notify, applied
\* to a copy of the ActiveTimeSlot; `a` holds the Actuator fields after the
\* handler's change and `now` is DateTime::now()
ApplyUpdate(update, active_timeslot, a, now) ==
    IF update.kind = "default"
    THEN IF active_timeslot.state.tag = "DefaultStateActive"
         THEN [active_timeslot EXCEPT !.actuator_state = a.default_state]
         ELSE active_timeslot
    ELSE IF update.kind = "state"
    THEN IF active_timeslot.state.tag = "TimeSlotActive" /\ active_timeslot.state.id = update.id
         THEN [active_timeslot EXCEPT !.actuator_state = a.timeslots[update.id].actuator_state]
         ELSE active_timeslot
    ELSE IF update.kind = "added"
    THEN update_timeslot_added(active_timeslot, a.timeslots[update.id], update.id, now)
    ELSE IF update.kind = "removed"
    THEN update_timeslot_removed(active_timeslot, update.id, a.timeslots, a.default_state, now)
    ELSE IF update.kind = "modified"
    THEN update_timeslot_modified(active_timeslot, a.timeslots[update.id], update.id,
                                  a.timeslots, a.default_state, now)
    ELSE active_timeslot

\* a comm record that is born with its flag set
ThreadCommFlagged(active_timeslot, modified) ==
    [active_timeslot |-> active_timeslot, modified |-> TRUE]

ThreadComm(active_timeslot, modified) ==
    [active_timeslot |-> active_timeslot, modified |-> modified]

\* the active timeslot swapped and the condition variable notified, the flag
\* left as it is
update_active_timeslot_without_flag(comm, update, a, now) ==
    LET new_active_ts == ApplyUpdate(update, comm.active_timeslot, a, now)
    IN IF new_active_ts # comm.active_timeslot
       THEN [comm |-> ThreadComm(new_active_ts, comm.modified), notify |-> TRUE]
       ELSE [comm |-> comm, notify |-> FALSE]

\* the flag set and the condition variable notified after every update,
\* whether or not the active timeslot has changed
update_active_timeslot_always_notify(comm, update, a, now) ==
    [comm |-> ThreadComm(ApplyUpdate(update, comm.active_timeslot, a, now), TRUE),
     notify |-> TRUE]

\* update_active_timeslot_and_notify, with the comm mutex held: the new comm
\* record and whether the condition variable is notified
update_active_timeslot_and_notify(comm, update, a, now) ==
    LET new_active_ts == ApplyUpdate(update, comm.active_timeslot, a, now)
    IN IF new_active_ts # comm.active_timeslot
       THEN [comm |-> ThreadComm(new_active_ts, TRUE), notify |-> TRUE]
       ELSE [comm |-> comm, notify |-> FALSE]

\* ------------------------------------------------------------------------
\* State
\* ------------------------------------------------------------------------

VARIABLES
    info,               \* Actuator.info.actuator_type
    timeslots,          \* Actuator.timeslots: slot id -> TimeSlot
    default_state,      \* Actuator.default_state
    next_timeslot_id,   \* Actuator.next_timeslot_id
    next_override_id,   \* Actuator.next_override_id
    thread_comm,        \* ThreadComm behind the comm mutex
    actuator_lock,      \* the RwLock around the Actuator: writer and readers
    comm_lock,          \* holder of the comm mutex
    signalled,          \* a notify_one reached the worker waiting on the condvar
    rpc,                \* the RPC handler running a mutation
    ncalls,             \* mutations started so far
    reader,             \* the RPC handler running a read or set_state
    clock,              \* wall clock: DateTime::now()
    late,               \* steps of the clock in a row that found a thread not at rest
    worker,             \* actuator_thread: position and locals
    sink,               \* state last written to the ActuatorController
    hist,               \* actuator_state of every ActiveTimeSlot written to thread_comm
    emitted,            \* what the worker pushed: position in hist, state
    eval,               \* a call of a function of time.rs or schedule.rs on its own
    server              \* server.rs: the Server, its registry of actuators and schedules

vars == <<info, timeslots, default_state, next_timeslot_id, next_override_id,
          thread_comm, actuator_lock, comm_lock, signalled, rpc, ncalls, reader,
          clock, late, worker, sink, hist, emitted, eval, server>>

actuator_vars == <<timeslots, default_state, next_timeslot_id, next_override_id>>
comm_vars == <<thread_comm, signalled, hist>>
lock_vars == <<actuator_lock, comm_lock>>

\* the fields of the Actuator a handler works on
Self ==
    [timeslots |-> timeslots, default_state |-> default_state,
     next_timeslot_id |-> next_timeslot_id, next_override_id |-> next_override_id]

DateTime(d, t) == [date |-> d, time |-> t]

\* first day of the wall clock: a Tuesday of the second week after EmptyDate
FirstDay == 8
LastDay == FirstDay + MaxDays - 1

\* the instants the wall clock is observed at, in the order of the shifted day
ClockTimes == <<TimeMIN, Time(5, 0), Time(23, 0), Time(2, 0)>>

ClockIndex(t) == CHOOSE i \in 1 .. Len(ClockTimes) : ClockTimes[i] = t

\* minutes elapsed since the start of day 0
Instant(now) == now.date * 1440 + ShiftedMinutes(now.time)

RwFree == [writer |-> "none", readers |-> {}]

RpcIdle == [pc |-> "idle", op |-> "", res |-> Ok(None), update |-> NoUpdate]

\* actuator_thread's locals. Of `now` only the date is kept: now.time is
\* overwritten before every use (before wait_sec and before compute).
WorkerAt(pc, date, end_time, deadline, snap) ==
    [pc |-> pc, date |-> date, end_time |-> end_time, deadline |-> deadline, snap |-> snap]

NoSnap == [active_timeslot |-> ats_default_state(Toggle(0)), modified |-> FALSE, ver |-> 0]

ActuatorTypes == {TypeToggle}

InitialState(ty) == IF ty.tag = "Toggle" THEN Toggle(0) ELSE FloatValue(ty.min)

\* Actuator::new for an actuator of one of the given types, and the worker
\* thread spawned by it reading the clock
\* server.rs, Server::new; `last` is the call served last and its result
ServerNew ==
    [actuators |-> [a \in {} |-> 0],
     schedules |-> [a \in {} |-> 0],
     next_actuator_id |-> 0,
     next_timeslot_id |-> 0,
     next_override_id |-> 0,
     last |-> [op |-> "", res |-> Ok(None)]]

\* no function is under evaluation on its own
NoEval == [fn |-> "none", args |-> <<>>, done |-> FALSE, res |-> 0]

\* the actuator, its worker and the clock after construction
Constructed(types) ==
    /\ info \in types
    /\ timeslots = [i \in {} |-> 0]
    /\ default_state = InitialState(info)
    /\ next_timeslot_id = 0
    /\ next_override_id = 0
    /\ thread_comm = ThreadComm(ats_default_state(default_state), FALSE)
    /\ actuator_lock = RwFree
    /\ comm_lock = "free"
    /\ signalled = FALSE
    /\ rpc = RpcIdle
    /\ ncalls = 0
    /\ reader = "idle"
    /\ clock = DateTime(FirstDay, TimeMIN)
    /\ late = 0
    /\ worker = WorkerAt("start", clock.date, TimeMAX, 0, NoSnap)
    /\ sink = [by |-> "none", state |-> default_state]
    /\ hist = <<default_state>>
    /\ emitted = <<>>

InitOf(types) ==
    /\ Constructed(types)
    /\ eval = NoEval
    /\ server = ServerNew

Init == InitOf(ActuatorTypes)

\* ------------------------------------------------------------------------
\* RPC handlers that mutate (server: actuator.write().unwrap().<handler>)
\* ------------------------------------------------------------------------

\* the handler takes the write lock and runs up to its call of
\* update_active_timeslot_and_notify, or up to its return
RpcBegin(op, out) ==
    /\ rpc.pc = "idle"
    /\ actuator_lock = RwFree
    /\ actuator_lock' = [writer |-> "rpc", readers |-> {}]
    /\ timeslots' = out.self.timeslots
    /\ default_state' = out.self.default_state
    /\ next_timeslot_id' = out.self.next_timeslot_id
    /\ next_override_id' = out.self.next_override_id
    /\ rpc' = [pc |-> IF out.update.kind = "none" THEN "done" ELSE "notify",
               op |-> op, res |-> out.res, update |-> out.update]
    /\ UNCHANGED <<info, eval, server, comm_lock, comm_vars, reader, clock, late, worker, sink, emitted>>

SetDefaultState(s) ==
    RpcBegin("set_default_state", set_default_state(Self, info, s))

\* at most MaxTimeSlots ids are issued: a call that would issue one more is
\* left out, a call that is rejected is not
AddTimeSlot(tp, s, en) ==
    /\ next_timeslot_id < MaxTimeSlots \/ IsErr(add_time_slot(Self, info, tp, s, en).res)
    /\ RpcBegin("add_time_slot", add_time_slot(Self, info, tp, s, en))

RemoveTimeSlot(id) ==
    RpcBegin("remove_time_slot", remove_time_slot(Self, id))

TimeSlotSetTimePeriod(id, tp) ==
    RpcBegin("time_slot_set_time_period", time_slot_set_time_period(Self, id, tp))

TimeSlotSetEnabled(id, en) ==
    RpcBegin("time_slot_set_enabled", time_slot_set_enabled(Self, id, en))

TimeSlotSetActuatorState(id, s) ==
    RpcBegin("time_slot_set_actuator_state", time_slot_set_actuator_state(Self, info, id, s))

\* at most MaxOverrides override ids are issued
TimeSlotAddTimeOverride(id, tp) ==
    /\ next_override_id < MaxOverrides \/ IsErr(time_slot_add_time_override(Self, id, tp).res)
    /\ RpcBegin("time_slot_add_time_override", time_slot_add_time_override(Self, id, tp))

TimeSlotRemoveTimeOverride(id, oid) ==
    RpcBegin("time_slot_remove_time_override", time_slot_remove_time_override(Self, id, oid))

\* update_active_timeslot_and_notify: self.thread_comm.lock()
RpcLockComm ==
    /\ rpc.pc = "notify"
    /\ comm_lock = "free"
    /\ comm_lock' = "rpc"
    /\ rpc' = [rpc EXCEPT !.pc = "update"]
    /\ UNCHANGED <<info, eval, server, actuator_vars, actuator_lock, comm_vars, ncalls, reader, clock, late,
                   worker, sink, emitted>>

\* the rest of update_active_timeslot_and_notify; the guard is dropped at its
\* end. `log` tells whether the write is recorded in hist.
RpcUpdate(log) ==
    /\ rpc.pc = "update"
    /\ \E r \in {update_active_timeslot_and_notify(thread_comm, rpc.update, Self, clock)} :
          /\ thread_comm' = r.comm
          /\ hist' = IF r.notify /\ log
                     THEN Append(hist, r.comm.active_timeslot.actuator_state) ELSE hist
          /\ signalled' = IF r.notify /\ worker.pc = "waiting" THEN TRUE ELSE signalled
    /\ comm_lock' = "free"
    /\ rpc' = [rpc EXCEPT !.pc = "done", !.update = NoUpdate]
    /\ UNCHANGED <<info, eval, server, actuator_vars, actuator_lock, ncalls, reader, clock, late, worker,
                   sink, emitted>>

\* the handler returns its result and the write guard is dropped
RpcReturn ==
    /\ rpc.pc = "done"
    /\ actuator_lock' = RwFree
    /\ rpc' = RpcIdle
    /\ UNCHANGED <<info, eval, server, actuator_vars, comm_lock, comm_vars, ncalls, reader, clock, late,
                   worker, sink, emitted>>

\* ------------------------------------------------------------------------
\* RPC handlers that read (server: actuator.read().unwrap().<handler>)
\* ------------------------------------------------------------------------

ReaderLock ==
    /\ reader = "idle"
    /\ actuator_lock.writer = "none"
    /\ actuator_lock' = [actuator_lock EXCEPT !.readers = @ \cup {"reader"}]
    /\ reader' = "reading"
    /\ UNCHANGED <<info, eval, server, actuator_vars, comm_lock, comm_vars, rpc, ncalls, clock, late, worker,
                   sink, emitted>>

\* list_timeslots, get_default_state: nothing but the guard is touched
ReaderDone ==
    /\ reader = "reading"
    /\ actuator_lock' = [actuator_lock EXCEPT !.readers = @ \ {"reader"}]
    /\ reader' = "idle"
    /\ UNCHANGED <<info, eval, server, actuator_vars, comm_lock, comm_vars, rpc, ncalls, clock, late, worker,
                   sink, emitted>>

\* a set_state that checks the state and leaves the controller alone
set_state_without_write(ty, state) ==
    IF ~valid_state(ty, state)
    THEN [res |-> InvalidArgument("ActuatorState"), write |-> FALSE]
    ELSE [res |-> Ok(None), write |-> FALSE]

\* Actuator::set_state: its result and whether the controller is written
set_state(ty, state) ==
    IF ~valid_state(ty, state)
    THEN [res |-> InvalidArgument("ActuatorState"), write |-> FALSE]
    ELSE [res |-> Ok(None), write |-> TRUE]

\* Actuator::set_state, under the read lock
SetState(state) ==
    /\ reader = "reading"
    /\ actuator_lock' = [actuator_lock EXCEPT !.readers = @ \ {"reader"}]
    /\ reader' = "idle"
    /\ sink' = IF set_state(info, state).write THEN [by |-> "rpc", state |-> state] ELSE sink
    /\ UNCHANGED <<info, eval, server, actuator_vars, comm_lock, comm_vars, rpc, ncalls, clock, late, worker,
                   emitted>>

\* ------------------------------------------------------------------------
\* Wall clock
\* ------------------------------------------------------------------------

\* every thread is at rest: no handler is running and the worker sleeps in
\* wait_timeout with its timeout still ahead
Quiescent ==
    /\ rpc.pc \in {"idle", "panicked"}
    /\ reader = "idle"
    /\ \/ worker.pc = "panicked"
       \/ /\ worker.pc = "waiting"
          /\ ~signalled
          /\ Instant(clock) * 60 < worker.deadline

\* the clock moves on while every thread is at rest, and at most MaxLag times
\* in a row while a thread has a step to take
Tick ==
    /\ Quiescent \/ late < MaxLag
    /\ late' = IF Quiescent THEN 0 ELSE late + 1
    /\ \/ /\ ClockIndex(clock.time) < Len(ClockTimes)
          /\ clock' = DateTime(clock.date, ClockTimes[ClockIndex(clock.time) + 1])
       \/ /\ ClockIndex(clock.time) = Len(ClockTimes)
          /\ clock.date < LastDay
          /\ clock' = DateTime(clock.date + 1, ClockTimes[1])
    /\ UNCHANGED <<info, eval, server, actuator_vars, lock_vars, comm_vars, rpc, ncalls, reader, worker,
                   sink, emitted>>

\* ------------------------------------------------------------------------
\* actuator.rs: actuator_thread
\* ------------------------------------------------------------------------

\* the comm mutex if the guard outlived the block around the wait
CommKeptByWorker == "worker"

\* the comm mutex once the worker's block around the wait ends
CommAfterBlock == "free"

\* leaving the wait loop without clearing the flag
LeaveLoopKeepingFlag(w) ==
    /\ worker' = [w EXCEPT
                    !.pc = IF thread_comm.modified THEN "emit" ELSE "timeout",
                    !.snap = [active_timeslot |-> thread_comm.active_timeslot,
                              modified |-> thread_comm.modified,
                              ver |-> Len(hist)]]
    /\ thread_comm' = thread_comm
    /\ comm_lock' = "free"
    /\ signalled' = FALSE

\* leaving the wait loop: the comm record is cloned, the flag cleared and the
\* guard dropped; the worker goes on to emit or to the timeout path
LeaveLoop(w) ==
    /\ worker' = [w EXCEPT
                    !.pc = IF thread_comm.modified THEN "emit" ELSE "timeout",
                    !.snap = [active_timeslot |-> thread_comm.active_timeslot,
                              modified |-> thread_comm.modified,
                              ver |-> Len(hist)]]
    /\ thread_comm' = [thread_comm EXCEPT !.modified = FALSE]
    /\ comm_lock' = CommAfterBlock
    /\ signalled' = FALSE

\* one pass of `while !modified` with the mutex held: leave on the flag or
\* on wait_sec <= 0, else wait on the condvar, which releases the mutex
LoopPass(w) ==
    IF thread_comm.modified
    THEN LeaveLoop(w)
    ELSE LET now == DateTime(w.date, clock.time)
             adjust_min == IF w.end_time = TimeMAX THEN 1 ELSE 0
             wait_sec == (sub_minute(w.end_time, now.time) + adjust_min) * 60
         IN IF wait_sec <= 0
            THEN LeaveLoop(w)
            ELSE /\ worker' = [w EXCEPT !.pc = "waiting",
                                        !.deadline = Instant(clock) * 60 + wait_sec]
                 /\ comm_lock' = "free"
                 /\ signalled' = FALSE
                 /\ UNCHANGED thread_comm

\* thread_comm_lock.lock() at the head of the outer loop, end_time read, and
\* the first pass of the inner loop
WorkerLock ==
    /\ worker.pc = "start"
    /\ comm_lock = "free"
    /\ LoopPass([worker EXCEPT !.end_time = thread_comm.active_timeslot.end_time])
    /\ UNCHANGED <<info, eval, server, actuator_vars, actuator_lock, hist, rpc, ncalls, reader, clock, late,
                   sink, emitted>>

\* wait_timeout returns timed out, with the mutex re-acquired
WorkerWakeTimeout ==
    /\ worker.pc = "waiting"
    /\ comm_lock = "free"
    /\ Instant(clock) * 60 >= worker.deadline
    /\ LeaveLoop(worker)
    /\ UNCHANGED <<info, eval, server, actuator_vars, actuator_lock, hist, rpc, ncalls, reader, clock, late,
                   sink, emitted>>

\* wait_timeout returns on a notify_one, with the mutex re-acquired
WorkerWakeNotified ==
    /\ worker.pc = "waiting"
    /\ comm_lock = "free"
    /\ signalled
    /\ LoopPass(worker)
    /\ UNCHANGED <<info, eval, server, actuator_vars, actuator_lock, hist, rpc, ncalls, reader, clock, late,
                   sink, emitted>>

\* a spurious wake-up taken for a timeout
WorkerWakeSpuriousTimesOut ==
    /\ worker.pc = "waiting"
    /\ comm_lock = "free"
    /\ ~signalled
    /\ LeaveLoop(worker)
    /\ UNCHANGED <<info, eval, server, actuator_vars, actuator_lock, hist, rpc, ncalls, reader, clock, late,
                   sink, emitted>>

\* wait_timeout returns for no reason (a spurious wake-up)
WorkerWakeSpurious ==
    /\ worker.pc = "waiting"
    /\ comm_lock = "free"
    /\ ~signalled
    /\ LoopPass(worker)
    /\ UNCHANGED <<info, eval, server, actuator_vars, actuator_lock, hist, rpc, ncalls, reader, clock, late,
                   sink, emitted>>

\* the modified branch: actuator.read()
WorkerEmitLock ==
    /\ worker.pc = "emit"
    /\ actuator_lock.writer = "none"
    /\ actuator_lock' = [actuator_lock EXCEPT !.readers = @ \cup {"worker"}]
    /\ worker' = [worker EXCEPT !.pc = "push"]
    /\ UNCHANGED <<info, eval, server, actuator_vars, comm_lock, comm_vars, rpc, ncalls, reader, clock, late,
                   sink, emitted>>

\* actuator_controller.set_state(&active_timeslot.actuator_state), then the
\* read guard is dropped and the loop starts over
WorkerPush ==
    /\ worker.pc = "push"
    /\ sink' = [by |-> "worker", state |-> worker.snap.active_timeslot.actuator_state]
    /\ emitted' = Append(emitted, [ver |-> worker.snap.ver,
                                   state |-> worker.snap.active_timeslot.actuator_state])
    /\ actuator_lock' = [actuator_lock EXCEPT !.readers = @ \ {"worker"}]
    /\ worker' = [worker EXCEPT !.pc = "start", !.snap = NoSnap]
    /\ UNCHANGED <<info, eval, server, actuator_vars, comm_lock, comm_vars, rpc, ncalls, reader, clock, late>>

\* the timeout branch: actuator.read()
WorkerTimeoutRead ==
    /\ worker.pc = "timeout"
    /\ actuator_lock.writer = "none"
    /\ actuator_lock' = [actuator_lock EXCEPT !.readers = @ \cup {"worker"}]
    /\ worker' = [worker EXCEPT !.pc = "timeout_comm"]
    /\ UNCHANGED <<info, eval, server, actuator_vars, comm_lock, comm_vars, rpc, ncalls, reader, clock, late,
                   sink, emitted>>

\* the timeout branch: thread_comm_lock.lock()
WorkerTimeoutComm ==
    /\ worker.pc = "timeout_comm"
    /\ comm_lock = "free"
    /\ comm_lock' = "worker"
    /\ worker' = [worker EXCEPT !.pc = "advance"]
    /\ UNCHANGED <<info, eval, server, actuator_vars, actuator_lock, comm_vars, rpc, ncalls, reader, clock, late,
                   sink, emitted>>

\* the promotion of the next timeslot unwraps the slot and its interval today
PromotePanics(w) ==
    \/ w.snap.active_timeslot.state.id \notin DOMAIN timeslots
    \/ ~time_interval_on(timeslots[w.snap.active_timeslot.state.id], w.date).some

\* the worker's `now` when it recomputes after a timeout
AdvancedNow(w) ==
    IF w.snap.active_timeslot.end_time = TimeMAX
    THEN DateTime(w.date + 1, TimeMIN)
    ELSE DateTime(w.date, w.snap.active_timeslot.end_time)

\* a timeout branch that takes the flag for clear whatever it is
ModifiedNeverRechecked(comm) == FALSE

\* `if thread_comm_guard.modified` of the timeout branch
ModifiedMeanwhile(comm) == comm.modified

\* the timeout branch with both guards held
WorkerAdvance ==
    /\ worker.pc = "advance"
    /\ IF ModifiedMeanwhile(thread_comm)
       THEN \* another operation modified thread_comm meanwhile: continue
            /\ worker' = [worker EXCEPT !.pc = "start", !.snap = NoSnap]
            /\ comm_lock' = "free"
            /\ actuator_lock' = [actuator_lock EXCEPT !.readers = @ \ {"worker"}]
            /\ UNCHANGED <<thread_comm, hist>>
       ELSE IF /\ worker.snap.active_timeslot.state.tag = "DefaultStateActive"
               /\ worker.snap.active_timeslot.state.id # None
            THEN IF PromotePanics(worker)
                 THEN \* unwrap() on None: the thread dies holding the comm guard
                      /\ worker' = [worker EXCEPT !.pc = "panicked"]
                      /\ comm_lock' = "poisoned"
                      /\ actuator_lock' = [actuator_lock EXCEPT !.readers = @ \ {"worker"}]
                      /\ UNCHANGED <<thread_comm, hist>>
                 ELSE LET next_id == worker.snap.active_timeslot.state.id
                          next_timeslot == timeslots[next_id]
                          new == ats_timeslot(
                                     next_id,
                                     worker.snap.active_timeslot.state.override_id,
                                     time_interval_on(next_timeslot,
                                                      worker.date).time_interval.end,
                                     next_timeslot.actuator_state)
                      IN /\ thread_comm' = ThreadComm(new, TRUE)
                         /\ hist' = Append(hist, new.actuator_state)
                         /\ worker' = [worker EXCEPT !.pc = "start", !.snap = NoSnap]
                         /\ comm_lock' = "free"
                         /\ actuator_lock' =
                                [actuator_lock EXCEPT !.readers = @ \ {"worker"}]
            ELSE LET now == AdvancedNow(worker)
                     new == compute(now, timeslots, default_state)
                 IN /\ thread_comm' = ThreadComm(new, TRUE)
                    /\ hist' = Append(hist, new.actuator_state)
                    /\ worker' = [worker EXCEPT !.pc = "start", !.date = now.date,
                                                !.snap = NoSnap]
                    /\ comm_lock' = "free"
                    /\ actuator_lock' = [actuator_lock EXCEPT !.readers = @ \ {"worker"}]
    /\ UNCHANGED <<info, eval, server, actuator_vars, signalled, rpc, ncalls, reader, clock, late, sink, emitted>>

\* a handler that finds the comm mutex poisoned panics on lock().unwrap(),
\* which poisons the RwLock it holds
RpcPoisoned ==
    /\ rpc.pc = "notify"
    /\ comm_lock = "poisoned"
    /\ rpc' = [rpc EXCEPT !.pc = "panicked"]
    /\ actuator_lock' = [writer |-> "poisoned", readers |-> actuator_lock.readers]
    /\ UNCHANGED <<info, eval, server, actuator_vars, comm_lock, comm_vars, ncalls, reader, clock, late, worker,
                   sink, emitted>>

\* ------------------------------------------------------------------------
\* Inputs and specifications
\* ------------------------------------------------------------------------

T0500 == Time(5, 0)
T2300 == Time(23, 0)
T0200 == Time(2, 0)

Always == DateRange(DateMIN, DateMAX)
Unchanged == DateRange(EmptyDate, EmptyDate)
OnDay(d) == DateRange(d, d)

\* states offered to the handlers: two of the actuator's type, one of the other
States == {Toggle(0), Toggle(1), FloatValue(1)}

\* the calls of the mutation API with arguments drawn from I
Calls(I) ==
    \/ \E s \in I.states : SetDefaultState(s)
    \/ \E tp \in I.periods, s \in I.states, en \in BOOLEAN : AddTimeSlot(tp, s, en)
    \/ \E id \in I.ids : RemoveTimeSlot(id)
    \/ \E id \in I.ids, tp \in I.patches : TimeSlotSetTimePeriod(id, tp)
    \/ \E id \in I.ids, en \in BOOLEAN : TimeSlotSetEnabled(id, en)
    \/ \E id \in I.ids, s \in I.states : TimeSlotSetActuatorState(id, s)
    \/ \E id \in I.ids, tp \in I.overrides : TimeSlotAddTimeOverride(id, tp)
    \/ \E id \in I.ids, oid \in I.oids : TimeSlotRemoveTimeOverride(id, oid)

RpcProgress(log) == RpcLockComm \/ RpcUpdate(log) \/ RpcReturn

WorkerStep ==
    \/ WorkerLock
    \/ WorkerWakeTimeout
    \/ WorkerWakeNotified
    \/ WorkerWakeSpurious
    \/ WorkerEmitLock
    \/ WorkerPush
    \/ WorkerTimeoutRead
    \/ WorkerTimeoutComm
    \/ WorkerAdvance

\* the schedule engine: few inputs, the mutators, the clock and the worker
EngineInputs ==
    [states |-> {Toggle(1), FloatValue(1)},
     periods |-> {TimePeriod(TimeInterval(T0500, T2300), Always, AllDays),
                  TimePeriod(TimeInterval(T2300, T0200), OnDay(FirstDay + 1), AllDays)},
     patches |-> {TimePeriod(TimeInterval(T2300, T0200), Unchanged, {})},
     overrides |-> {TimePeriod(TimeInterval(T0500, T0200), OnDay(FirstDay), AllDays)},
     ids |-> 0 .. 1,
     oids |-> 0 .. 0]

Next ==
    \/ /\ ncalls < MaxCalls
       /\ ncalls' = ncalls + 1
       /\ Calls(EngineInputs)
    \/ RpcProgress(TRUE)
    \/ RpcPoisoned
    \/ Tick
    \/ WorkerStep

Spec == Init /\ [][Next]_vars

\* the mutation API alone, at a fixed instant: many inputs, no other thread
TableInputs ==
    [states |-> {Toggle(1), FloatValue(1)},
     periods |-> {TimePeriod(TimeInterval(T0500, T2300), Always, AllDays),
                  TimePeriod(TimeInterval(T2300, T0200), OnDay(FirstDay), AllDays),
                  TimePeriod(TimeInterval(T0500, T0200), OnDay(FirstDay + 1),
                             {num_days_from_monday(FirstDay + 1)}),
                  TimePeriod(TimeInterval(T0500, T0200), OnDay(FirstDay), AllDays),
                  TimePeriod(TimeInterval(T0200, T0500), Always, AllDays)},
     patches |-> {TimePeriod(TimeInterval(s, e), dr, days) :
                     s \in {TimeEMPTY, T2300}, e \in {TimeEMPTY, T0200},
                     dr \in {Unchanged, DateRange(FirstDay, EmptyDate),
                             DateRange(EmptyDate, FirstDay)},
                     days \in {{}, {num_days_from_monday(FirstDay)}}},
     overrides |-> {TimePeriod(TimeInterval(T0500, T0200), OnDay(FirstDay), AllDays),
                    TimePeriod(TimeInterval(T2300, T0200), Always,
                               {num_days_from_monday(FirstDay + 1)}),
                    TimePeriod(TimeInterval(T0500, T2300),
                               DateRange(FirstDay, FirstDay + 1), AllDays),
                    TimePeriod(TimeInterval(T0200, T0500), OnDay(FirstDay), AllDays)},
     ids |-> 0 .. MaxTimeSlots,
     oids |-> 0 .. MaxOverrides]

\* the server: the engine with the reading handlers and set_state
ServerNext ==
    \/ Next
    \/ ReaderLock
    \/ ReaderDone
    \/ \E s \in States : SetState(s)

ServerSpec == Init /\ [][ServerNext]_vars

\* the steps of the worker that are bound to happen: all but a spurious wake-up
WorkerRuns ==
    \/ WorkerLock
    \/ WorkerWakeTimeout
    \/ WorkerWakeNotified
    \/ WorkerEmitLock
    \/ WorkerPush
    \/ WorkerTimeoutRead
    \/ WorkerTimeoutComm
    \/ WorkerAdvance

\* the engine with threads that are scheduled and a clock that runs; calls
\* of the mutation API may stop at any time
LiveSpec ==
    /\ Spec
    /\ WF_vars(WorkerRuns)
    /\ WF_vars(RpcProgress(TRUE) \/ RpcPoisoned)
    /\ WF_vars(Tick)

TableNext ==
    \/ /\ ncalls < MaxTableCalls
       /\ ncalls' = ncalls + 1
       /\ Calls(TableInputs)
    \/ RpcProgress(FALSE)

TableSpec == Init /\ [][TableNext]_vars

\* actuators of both types, with states of either variant, inside the range,
\* on its bounds and outside of it
FloatActuator == TypeFloat(1, 2)

TypedInputs ==
    [states |-> {Toggle(1), FloatValue(0), FloatValue(1), FloatValue(2), FloatValue(3)},
     periods |-> {TimePeriod(TimeInterval(T0500, T2300), Always, AllDays),
                  TimePeriod(TimeInterval(T2300, T0200), OnDay(FirstDay), AllDays),
                  TimePeriod(TimeInterval(T0200, T0500), Always, AllDays)},
     patches |-> {TimePeriod(TimeInterval(T2300, T0200), Unchanged, {})},
     overrides |-> {TimePeriod(TimeInterval(T0500, T0200), OnDay(FirstDay), AllDays)},
     ids |-> 0 .. 1,
     oids |-> 0 .. 0]

\* the mutation API and set_state on an actuator of either type
TypedNext ==
    \/ /\ ncalls < MaxTableCalls
       /\ ncalls' = ncalls + 1
       /\ Calls(TypedInputs)
    \/ RpcProgress(FALSE)
    \/ ReaderLock
    \/ \E s \in TypedInputs.states : SetState(s)

TypedInit == InitOf({TypeToggle, FloatActuator})

TypedSpec == TypedInit /\ [][TypedNext]_vars

\* ------------------------------------------------------------------------
\* Properties of the slot table
\* ------------------------------------------------------------------------

\* C1: after any sequence of successful mutations every two distinct slots of
\* the table are non-overlapping, where two slots overlap iff their base
\* periods overlap on dates and their base time intervals overlap or an
\* override of either overlaps the other's period
C1_SlotsPairwiseNonOverlapping ==
    \A i, j \in DOMAIN timeslots :
        i # j => /\ ~TimeSlotOverlaps(timeslots[i], timeslots[j].time_period)
                 /\ ~TimeSlotOverlaps(timeslots[j], timeslots[i].time_period)

\* C2: time_slot_set_time_period(id, patch) on a slot of the table decides
\* overlap on the candidate period (the slot's period with every non-sentinel
\* field of the patch substituted): it fails with TimeSlotOverlap(j) only for
\* another slot j that overlaps the candidate, it does fail so when the
\* candidate is valid and some other slot overlaps it, and it succeeds when
\* the candidate is valid and no other slot overlaps it
C2_SetTimePeriodDecidesOnCandidate ==
    [][\A id \in TableInputs.ids, patch \in TableInputs.patches :
          (id \in DOMAIN timeslots /\ TimeSlotSetTimePeriod(id, patch)) =>
              LET candidate == PatchedPeriod(timeslots[id].time_period, patch)
                  others == {j \in DOMAIN timeslots \ {id} :
                                TimeSlotOverlaps(timeslots[j], candidate)}
              IN /\ rpc'.res.tag = "TimeSlotOverlap" => rpc'.res.id \in others
                 /\ (TimePeriodValid(candidate) /\ others # {})
                        => rpc'.res.tag = "TimeSlotOverlap"
                 /\ (TimePeriodValid(candidate) /\ others = {})
                        => rpc'.res = Ok(None)]_vars

\* C3: after any sequence of successful mutations, on every calendar date
\* the effective intervals (the interval of an override that covers the date,
\* else the base interval if the base period covers it) of every two distinct
\* slots do not overlap under the shifted time order, overrides that lie
\* outside their slot's base period included
C3_EffectiveIntervalsDisjoint ==
    \A D \in FirstDay .. LastDay :
        \A i, j \in DOMAIN timeslots :
            (/\ i # j
             /\ time_interval_on(timeslots[i], D).some
             /\ time_interval_on(timeslots[j], D).some)
            => ~TimeIntervalOverlaps(time_interval_on(timeslots[i], D).time_interval,
                                     time_interval_on(timeslots[j], D).time_interval)

C5_ErrorLeavesActuatorUnchanged ==
    [][/\ (rpc.pc = "idle" /\ rpc'.pc # "idle" /\ IsErr(rpc'.res)) =>
              /\ UNCHANGED <<timeslots, default_state, next_timeslot_id, next_override_id>>
              /\ UNCHANGED <<thread_comm, signalled, comm_lock>>
              /\ rpc'.pc = "done"
              /\ rpc'.update = NoUpdate
       /\ (rpc.pc = "done" /\ IsErr(rpc.res) /\ rpc' # rpc) =>
              /\ UNCHANGED <<timeslots, default_state, next_timeslot_id, next_override_id>>
              /\ UNCHANGED <<thread_comm, signalled, comm_lock>>
              /\ rpc'.pc = "idle"]_vars

\* a call on a table with slots and overrides has returned an error
C5_ErrorReturned ==
    /\ rpc.pc = "done"
    /\ IsErr(rpc.res)
    /\ \E i \in DOMAIN timeslots : timeslots[i].time_override # NoOverrides

\* a handler returns Ok from the call named op
Succeeds(op) == rpc.pc = "idle" /\ rpc'.pc # "idle" /\ rpc'.op = op /\ ~IsErr(rpc'.res)

\* C6: slot ids and override ids come from counters that start at 0, go up by
\* exactly one on each successful add_time_slot / time_slot_add_time_override,
\* which returns the counter's value before the step, and never change
\* otherwise (not on a rejected add, not on a removal); so the ids in the
\* table are below the counters and no id is returned twice
C6_IdCountersMonotone ==
    /\ next_timeslot_id = 0
    /\ next_override_id = 0
    /\ [][/\ IF Succeeds("add_time_slot")
             THEN /\ rpc'.res = Ok(next_timeslot_id)
                  /\ next_timeslot_id' = next_timeslot_id + 1
             ELSE next_timeslot_id' = next_timeslot_id
          /\ IF Succeeds("time_slot_add_time_override")
             THEN /\ rpc'.res = Ok(next_override_id)
                  /\ next_override_id' = next_override_id + 1
             ELSE next_override_id' = next_override_id
          /\ \A i \in DOMAIN timeslots' :
                 /\ i < next_timeslot_id'
                 /\ \A o \in DOMAIN timeslots'[i].time_override : o < next_override_id']_vars

\* two successful adds, then a rejected add: next_timeslot_id is 2
C6_RejectedAddKeepsCounter ==
    /\ ncalls = 3
    /\ rpc.pc = "done"
    /\ rpc.op = "add_time_slot"
    /\ rpc.res.tag = "TimeSlotOverlap"
    /\ next_timeslot_id = 2
    /\ DOMAIN timeslots = {0, 1}

\* ------------------------------------------------------------------------
\* Properties of the engine
\* ------------------------------------------------------------------------

\* C7: after a successful mutation performed at the instant now, the
\* ActiveTimeSlot held in the comm record equals compute(now, timeslots,
\* default_state) on the table and default state the mutation left: the
\* incremental updates yield what a full recompute yields
C7_IncrementalEqualsCompute ==
    [][(rpc.pc = "update" /\ rpc'.pc = "done") =>
           thread_comm'.active_timeslot = compute(clock, timeslots, default_state)]_vars

\* C8: the states the worker pushes to the output sink follow the states of
\* the successive ActiveTimeSlot values written to the comm record (by the
\* handlers and by the worker's timeout advances): every push is the state of
\* one of these writes, the pushes come in the order of the writes, none is
\* pushed twice or out of order, and the sink holds the last push, the worker
\* being the only thread that pushes
C8_EmissionsFollowCommWrites ==
    /\ \A k \in 1 .. Len(emitted) :
           /\ emitted[k].ver \in 1 .. Len(hist)
           /\ emitted[k].state = hist[emitted[k].ver]
    /\ \A k \in 1 .. Len(emitted) - 1 : emitted[k].ver < emitted[k + 1].ver
    /\ sink.by \in {"none", "worker"}
    /\ sink.by = "none" => emitted = <<>>
    /\ sink.by = "worker" => /\ emitted # <<>>
                             /\ sink.state = emitted[Len(emitted)].state

\* the worker has pushed two different states, and skipped a write between them
C8_TwoEmissions ==
    /\ Len(emitted) >= 2
    /\ emitted[1].state # emitted[2].state
    /\ emitted[2].ver > emitted[1].ver + 1

\* ------------------------------------------------------------------------
\* Properties of the locking
\* ------------------------------------------------------------------------

Threads == {"rpc", "worker", "reader"}

\* the threads that hold the lock thread t is about to acquire
WaitsFor(t) ==
    CASE t = "rpc" ->
             IF rpc.pc = "notify" THEN {comm_lock} \cap Threads
             ELSE IF rpc.pc = "idle" THEN actuator_lock.readers
             ELSE {}
      [] t = "worker" ->
             IF worker.pc \in {"start", "waiting", "timeout_comm"}
             THEN {comm_lock} \cap Threads
             ELSE IF worker.pc \in {"emit", "timeout"}
             THEN {actuator_lock.writer} \cap Threads
             ELSE {}
      [] t = "reader" ->
             IF reader = "idle" THEN {actuator_lock.writer} \cap Threads ELSE {}

\* no set of threads in which each one waits for a lock another one holds
NoWaitCycle ==
    \A S \in SUBSET Threads :
        S # {} => \E t \in S : WaitsFor(t) \cap S = {}

HoldsActuator(t, lock) == lock.writer = t \/ t \in lock.readers

\* C9: mutators, readers, set_state and the worker never deadlock: no set of
\* threads waits in a cycle; the worker does not hold the comm mutex when it
\* is about to take the actuator lock or pushes to the sink; and a thread
\* that takes the comm mutex next to the actuator lock took the actuator
\* lock first
C9_NoDeadlock ==
    /\ [](/\ NoWaitCycle
          /\ worker.pc \in {"emit", "push", "timeout"} => comm_lock # "worker"
          /\ comm_lock = "rpc" => actuator_lock.writer = "rpc")
    /\ [][\A t \in {"rpc", "worker"} :
              /\ (~HoldsActuator(t, actuator_lock) /\ HoldsActuator(t, actuator_lock'))
                     => (comm_lock # t /\ comm_lock' # t)
              /\ (comm_lock # t /\ comm_lock' = t /\ HoldsActuator(t, actuator_lock'))
                     => HoldsActuator(t, actuator_lock)]_vars

\* a mutator holds the write lock and is about to take the comm mutex while
\* the worker, out of its block, is about to take the read lock, and a reader
\* waits as well
C9_Contention ==
    /\ rpc.pc = "notify"
    /\ worker.pc \in {"emit", "timeout"}
    /\ reader = "idle"
    /\ comm_lock = "free"
    /\ actuator_lock.writer = "rpc"

\* ------------------------------------------------------------------------
\* Properties of the wake-ups
\* ------------------------------------------------------------------------

\* the last push of the worker is the state of the last write to the comm
\* record
CaughtUp ==
    /\ emitted # <<>>
    /\ emitted[Len(emitted)].ver = Len(hist)
    /\ sink.state = thread_comm.active_timeslot.actuator_state

\* C10: no wake-up is lost. Every change of the active timeslot in the comm
\* record is made with the comm mutex held and leaves the modified flag set;
\* and with threads that are scheduled, after every such change the worker
\* comes to push the state of the latest active timeslot, so that once the
\* changes stop the sink holds the state of the current active timeslot
C10_NoLostWakeUp ==
    /\ [][thread_comm'.active_timeslot # thread_comm.active_timeslot
              => /\ thread_comm'.modified
                 /\ comm_lock \in {"rpc", "worker"}]_vars
    /\ (Len(hist) > 1) ~> CaughtUp
    /\ <>[](Len(hist) > 1 => CaughtUp)

\* a mutator changed the active timeslot while the worker slept, the worker
\* was woken and has pushed the new state
C10_WokenAndPushed ==
    /\ Len(hist) > 1
    /\ CaughtUp
    /\ sink.state # hist[1]
    /\ worker.pc = "waiting"

\* ------------------------------------------------------------------------
\* Properties of the worker's progression
\* ------------------------------------------------------------------------

\* one call was made, it added slot 0, enabled, and every thread is at rest
SingleSlotAtRest ==
    /\ ncalls = 1
    /\ DOMAIN timeslots = {0}
    /\ timeslots[0].enabled
    /\ Quiescent
    /\ worker.pc = "waiting"

\* the active timeslot that goes with the clock when slot 0 is the only slot:
\* the default state until the interval's start, the slot until its end, the
\* default state till the end of the day after that
SingleSlotProgression(now) ==
    LET today == time_interval_on(timeslots[0], now.date)
    IN IF ~today.some
       THEN ats_default_state(default_state)
       ELSE IF TimeLT(now.time, today.time_interval.start)
       THEN ats_default_state_until(0, None, today.time_interval.start, default_state)
       ELSE IF TimeLT(now.time, today.time_interval.end)
       THEN ats_timeslot(0, None, today.time_interval.end, timeslots[0].actuator_state)
       ELSE ats_default_state(default_state)

\* C11: with a single enabled slot and no further call, whenever the threads
\* are at rest the active timeslot is the one that goes with the clock
\* (default until a, the slot until b, default till the end of the day), the
\* worker's date is the date of the clock (it moved on by one day at 04:00),
\* and the state pushed last is the state of the active timeslot
C11_SingleSlotProgression ==
    SingleSlotAtRest =>
        /\ thread_comm.active_timeslot = SingleSlotProgression(clock)
        /\ worker.date = clock.date
        /\ emitted # <<>> => sink.state = thread_comm.active_timeslot.actuator_state
        /\ thread_comm.active_timeslot # ats_default_state(default_state) => emitted # <<>>

\* the instant at which the active timeslot read by the worker ends: end_time
\* on the worker's date, one minute later for the end of the day
EndInstant(w) ==
    w.date * 1440 + ShiftedMinutes(w.end_time) + (IF w.end_time = TimeMAX THEN 1 ELSE 0)

\* C12: the worker never goes to sleep when the wall clock has already passed
\* the end of the active timeslot: every step in which it starts to wait is
\* taken before that end, the end of the day (04:00 of the following day)
\* included
C12_NoSleepPastEnd ==
    [][(worker'.pc = "waiting" /\ worker' # worker)
           => Instant(clock) < EndInstant(worker')]_vars

\* ------------------------------------------------------------------------
\* Properties of the handlers
\* ------------------------------------------------------------------------

\* C13: add_time_slot with a valid period and a state of the actuator's type
\* fails with TimeSlotOverlap(i) exactly when some slot of the table overlaps
\* the period, i being the smallest id of these slots, and the table is left
\* as it was; otherwise it returns the new id, the value of the counter, and
\* the table gains under that id a slot with the given period, state and
\* enabled flag and no override, the other slots being unchanged
C13_AddTimeSlotContract ==
    [][\A tp \in TableInputs.periods, s \in TableInputs.states, en \in BOOLEAN :
          (TimePeriodValid(tp) /\ valid_state(info, s) /\ AddTimeSlot(tp, s, en)) =>
              LET hits == {j \in DOMAIN timeslots : TimeSlotOverlaps(timeslots[j], tp)}
                  id == next_timeslot_id
              IN IF hits # {}
                 THEN /\ rpc'.res = TimeSlotOverlap(SetMin(hits))
                      /\ timeslots' = timeslots
                 ELSE /\ rpc'.res = Ok(id)
                      /\ id \notin DOMAIN timeslots
                      /\ DOMAIN timeslots' = DOMAIN timeslots \cup {id}
                      /\ timeslots'[id] = [enabled |-> en, actuator_state |-> s,
                                           time_period |-> tp, time_override |-> <<>>]
                      /\ \A j \in DOMAIN timeslots : timeslots'[j] = timeslots[j]]_vars

\* an add was rejected for a period that two slots overlap, with the id of
\* the first of them
C13_RejectedWithSmallestId ==
    /\ rpc.pc = "done"
    /\ rpc.op = "add_time_slot"
    /\ rpc.res = TimeSlotOverlap(0)
    /\ \E tp \in TableInputs.periods :
           /\ TimePeriodValid(tp)
           /\ {j \in DOMAIN timeslots : TimeSlotOverlaps(timeslots[j], tp)} = {0, 1}

\* the slots other than `skip` that are disabled and overlap the period
DisabledHits(skip, tp) ==
    {j \in DOMAIN timeslots \ {skip} :
        ~timeslots[j].enabled /\ TimeSlotOverlaps(timeslots[j], tp)}

\* C14: a disabled slot blocks like an enabled one. add_time_slot,
\* time_slot_set_time_period (on its candidate period) and
\* time_slot_add_time_override fail when the period they are about to store
\* is valid and overlaps a disabled slot other than the target; and after a
\* successful time_slot_set_enabled(id, true) no two enabled slots overlap
C14_DisabledSlotsBlock ==
    [][/\ \A tp \in TableInputs.periods, s \in TableInputs.states, en \in BOOLEAN :
              (/\ TimePeriodValid(tp)
               /\ DisabledHits(None, tp) # {}
               /\ AddTimeSlot(tp, s, en)) => IsErr(rpc'.res)
       /\ \A id \in TableInputs.ids, patch \in TableInputs.patches :
              (/\ id \in DOMAIN timeslots
               /\ TimePeriodValid(PatchedPeriod(timeslots[id].time_period, patch))
               /\ DisabledHits(id, PatchedPeriod(timeslots[id].time_period, patch)) # {}
               /\ TimeSlotSetTimePeriod(id, patch)) => IsErr(rpc'.res)
       /\ \A id \in TableInputs.ids, tp \in TableInputs.overrides :
              (/\ id \in DOMAIN timeslots
               /\ TimePeriodValid(tp)
               /\ DisabledHits(id, tp) # {}
               /\ TimeSlotAddTimeOverride(id, tp)) => IsErr(rpc'.res)
       /\ \A id \in TableInputs.ids :
              (TimeSlotSetEnabled(id, TRUE) /\ ~IsErr(rpc'.res)) =>
                  \A i, j \in DOMAIN timeslots' :
                      (i # j /\ timeslots'[i].enabled /\ timeslots'[j].enabled)
                          => ~TimeSlotOverlaps(timeslots'[i], timeslots'[j].time_period)]_vars

\* ------------------------------------------------------------------------
\* Properties of the actuator states
\* ------------------------------------------------------------------------

\* a state goes with a type: a Toggle value with Toggle, a Float value within
\* the bounds, bounds included, with Float{min, max}
TypeCompatible(ty, state) ==
    \/ ty.tag = "Toggle" /\ state.tag = "Toggle"
    \/ /\ ty.tag = "FloatValue"
       /\ state.tag = "FloatValue"
       /\ state.value \in ty.min .. ty.max

\* C15: after any sequence of operations default_state and the actuator_state
\* of every slot of the table are compatible with the actuator's type
C15_StoredStatesTypeCompatible ==
    /\ TypeCompatible(info, default_state)
    /\ \A i \in DOMAIN timeslots : TypeCompatible(info, timeslots[i].actuator_state)

\* a Float actuator whose default state was set to its upper bound holds a
\* slot with its lower bound, after a call that was refused
C15_FloatStatesStored ==
    /\ info = FloatActuator
    /\ default_state = FloatValue(FloatActuator.max)
    /\ \E i \in DOMAIN timeslots : timeslots[i].actuator_state = FloatValue(FloatActuator.min)
    /\ rpc.pc = "done"
    /\ rpc.res = InvalidArgument("ActuatorState")

\* the result is InvalidArgument(ActuatorState) exactly when the state does
\* not go with the actuator's type
StateErrorExactly(res, state) ==
    res = InvalidArgument("ActuatorState") <=> ~TypeCompatible(info, state)

\* set_default_state, time_slot_set_actuator_state and set_state refuse a
\* state exactly when it does not go with the type, and set_state writes the
\* controller exactly when it accepts
StateCheckedFirst ==
    /\ \A s \in TypedInputs.states :
           SetDefaultState(s) => StateErrorExactly(rpc'.res, s)
    /\ \A id \in TypedInputs.ids, s \in TypedInputs.states :
           TimeSlotSetActuatorState(id, s) => StateErrorExactly(rpc'.res, s)
    /\ \A s \in TypedInputs.states :
           SetState(s) => /\ StateErrorExactly(set_state(info, s).res, s)
                          /\ TypeCompatible(info, s) => sink' = [by |-> "rpc", state |-> s]
                          /\ ~TypeCompatible(info, s) => sink' = sink

\* C16 as stated: each of set_default_state, add_time_slot,
\* time_slot_set_actuator_state and set_state returns
\* InvalidArgument(ActuatorState) exactly when the state is of the wrong
\* variant or a Float outside [min, max]
C16_StateErrorExactly ==
    [][/\ StateCheckedFirst
       /\ \A tp \in TypedInputs.periods, s \in TypedInputs.states, en \in BOOLEAN :
              AddTimeSlot(tp, s, en) => StateErrorExactly(rpc'.res, s)]_vars

\* C16 amended: set_default_state, time_slot_set_actuator_state and set_state
\* return InvalidArgument(ActuatorState) exactly when the state is of the
\* wrong variant or a Float outside [min, max], the bounds being accepted;
\* add_time_slot does so when its period is valid, and returns
\* InvalidArgument(TimePeriod) for an invalid period whatever the state
C16_StateErrorAfterPeriod ==
    [][/\ StateCheckedFirst
       /\ \A tp \in TypedInputs.periods, s \in TypedInputs.states, en \in BOOLEAN :
              AddTimeSlot(tp, s, en) =>
                  IF TimePeriodValid(tp)
                  THEN StateErrorExactly(rpc'.res, s)
                  ELSE rpc'.res = InvalidArgument("TimePeriod")]_vars

\* on a Float actuator a slot holds the upper bound and a state outside the
\* range has just been refused for it
C16_BoundStoredOutsideRefused ==
    /\ info = FloatActuator
    /\ rpc.pc = "done"
    /\ rpc.op = "time_slot_set_actuator_state"
    /\ rpc.res = InvalidArgument("ActuatorState")
    /\ \E i \in DOMAIN timeslots : timeslots[i].actuator_state = FloatValue(FloatActuator.max)

\* ------------------------------------------------------------------------
\* Relations between calls
\* ------------------------------------------------------------------------

\* the Actuator fields and the ActiveTimeSlot left by a handler's outcome
\* `out` run to its end on the ActiveTimeSlot `active` at the instant `now`
AfterCall(out, active, now) ==
    [self |-> out.self,
     active |-> IF out.update.kind = "none" THEN active
                ELSE update_active_timeslot_and_notify(
                         ThreadComm(active, FALSE), out.update, out.self, now
                     ).comm.active_timeslot]

\* add_time_slot(tp, s, en) run from the current state and, if it succeeds,
\* remove_time_slot of the id it returned run right after it
AddThenRemove(tp, s, en) ==
    LET added == add_time_slot(Self, info, tp, s, en)
        mid == AfterCall(added, thread_comm.active_timeslot, clock)
        removed == remove_time_slot(mid.self, added.res.id)
    IN [ok |-> ~IsErr(added.res),
        res |-> removed.res,
        end |-> AfterCall(removed, mid.active, clock)]

\* C17: from every state with no call in progress, a successful
\* add_time_slot followed at once by remove_time_slot of the new id leaves
\* the slot table, default_state and the ActiveTimeSlot as they were before
\* the add; next_timeslot_id alone has moved on, by one
C17_AddThenRemoveRestores ==
    rpc.pc = "idle" =>
        \A tp \in EngineInputs.periods, s \in EngineInputs.states, en \in BOOLEAN :
            AddThenRemove(tp, s, en).ok =>
                /\ AddThenRemove(tp, s, en).res = Ok(None)
                /\ AddThenRemove(tp, s, en).end.self.timeslots = timeslots
                /\ AddThenRemove(tp, s, en).end.self.default_state = default_state
                /\ AddThenRemove(tp, s, en).end.self.next_timeslot_id = next_timeslot_id + 1
                /\ AddThenRemove(tp, s, en).end.self.next_override_id = next_override_id
                /\ AddThenRemove(tp, s, en).end.active = thread_comm.active_timeslot

\* the patch that names no field: every component is its empty sentinel
EmptyPatch == TimePeriod(TimeInterval(TimeEMPTY, TimeEMPTY), Unchanged, {})

\* the two patches that ask for nothing new of slot id
SamePeriodPatches(id) == {timeslots[id].time_period, EmptyPatch}

\* time_slot_set_time_period(id, patch) run from the current state
SetTimePeriodNow(id, patch) ==
    AfterCall(time_slot_set_time_period(Self, id, patch),
              thread_comm.active_timeslot, clock)

\* C18: from every state with no call in progress, time_slot_set_time_period
\* on a slot of the table, with the slot's current period or with the patch
\* of empty sentinels, returns Ok and changes neither the slot table nor the
\* ActiveTimeSlot (so the worker is not signalled and emits nothing new),
\* whether the slot is enabled or not
C18_SamePeriodIsNoOp ==
    rpc.pc = "idle" =>
        \A id \in DOMAIN timeslots : \A patch \in SamePeriodPatches(id) :
            /\ time_slot_set_time_period(Self, id, patch).res = Ok(None)
            /\ SetTimePeriodNow(id, patch).self = Self
            /\ SetTimePeriodNow(id, patch).active = thread_comm.active_timeslot

\* ------------------------------------------------------------------------
\* Properties of the patched period
\* ------------------------------------------------------------------------

\* the component left by a patch field: the field unless it is the sentinel
Patched(field, sentinel, previous) == IF field # sentinel THEN field ELSE previous

\* C19: when time_slot_set_time_period(id, patch) returns Ok, each of the
\* five components of slot id's period is the patch's field if that field is
\* not its empty sentinel and is the previous component otherwise; the
\* slot's enabled flag, actuator_state and overrides, and every other slot,
\* are as they were
C19_PatchByComponent ==
    [][\A id \in TableInputs.ids, patch \in TableInputs.patches :
          (TimeSlotSetTimePeriod(id, patch) /\ rpc'.res = Ok(None)) =>
              /\ id \in DOMAIN timeslots
              /\ DOMAIN timeslots' = DOMAIN timeslots
              /\ LET old == timeslots[id].time_period
                     new == timeslots'[id].time_period
                 IN /\ new.time_interval.start =
                           Patched(patch.time_interval.start, TimeEMPTY, old.time_interval.start)
                    /\ new.time_interval.end =
                           Patched(patch.time_interval.end, TimeEMPTY, old.time_interval.end)
                    /\ new.date_range.start =
                           Patched(patch.date_range.start, EmptyDate, old.date_range.start)
                    /\ new.date_range.end =
                           Patched(patch.date_range.end, EmptyDate, old.date_range.end)
                    /\ new.days = Patched(patch.days, {}, old.days)
              /\ timeslots'[id].enabled = timeslots[id].enabled
              /\ timeslots'[id].actuator_state = timeslots[id].actuator_state
              /\ timeslots'[id].time_override = timeslots[id].time_override
              /\ \A j \in DOMAIN timeslots \ {id} : timeslots'[j] = timeslots[j]]_vars

\* a patch of the start alone has succeeded: a slot holds the start 23:00
\* with the end, dates and weekday it was added with, and still its override
C19_StartPatchedRestKept ==
    /\ rpc.op = "time_slot_set_time_period"
    /\ rpc.res = Ok(None)
    /\ rpc.pc \in {"notify", "update", "done"}
    /\ \E id \in DOMAIN timeslots :
           /\ timeslots[id].time_period =
                  TimePeriod(TimeInterval(T2300, T0200), OnDay(FirstDay + 1),
                             {num_days_from_monday(FirstDay + 1)})
           /\ timeslots[id].time_override # <<>>

\* ------------------------------------------------------------------------
\* Properties of the effective interval
\* ------------------------------------------------------------------------

\* the date is in the period's range and its weekday is one of the period's
CoversDate(p, d) ==
    /\ p.date_range.start <= d
    /\ d <= p.date_range.end
    /\ num_days_from_monday(d) \in p.days

\* the overrides of the slot that apply on the date
OverridesOn(slot, d) ==
    {o \in DOMAIN slot.time_override : CoversDate(slot.time_override[o], d)}

\* C20: for every slot of the table and every date, at most one override of
\* the slot covers the date; if one does, the effective interval is that
\* override's interval with its id, whether or not the base period covers
\* the date; if none does and the base period covers the date, it is the
\* base interval with no override id; otherwise there is none
C20_EffectiveInterval ==
    \A id \in DOMAIN timeslots : \A d \in FirstDay .. LastDay :
        LET slot == timeslots[id]
            effective == time_interval_on(slot, d)
        IN /\ Cardinality(OverridesOn(slot, d)) <= 1
           /\ \A o \in OverridesOn(slot, d) :
                  /\ effective.some
                  /\ effective.time_interval = slot.time_override[o].time_interval
                  /\ effective.override_id = o
           /\ (OverridesOn(slot, d) = {} /\ CoversDate(slot.time_period, d)) =>
                  /\ effective.some
                  /\ effective.time_interval = slot.time_period.time_interval
                  /\ effective.override_id = None
           /\ (OverridesOn(slot, d) = {} /\ ~CoversDate(slot.time_period, d)) =>
                  ~effective.some

\* an override was added to a slot whose base period covers the first day
\* with another interval: on that day the override's interval is in effect
C20_OverrideOverBase ==
    /\ rpc.op = "time_slot_add_time_override"
    /\ rpc.pc = "done"
    /\ \E id \in DOMAIN timeslots : \E o \in DOMAIN timeslots[id].time_override :
           /\ CoversDate(timeslots[id].time_period, FirstDay)
           /\ CoversDate(timeslots[id].time_override[o], FirstDay)
           /\ timeslots[id].time_override[o].time_interval #
                  timeslots[id].time_period.time_interval
           /\ time_interval_on(timeslots[id], FirstDay).override_id = o

\* ------------------------------------------------------------------------
\* Properties of the search for the next slot
\* ------------------------------------------------------------------------

\* the instants of the model: every date at every observed time of day
Instants ==
    {DateTime(d, ClockTimes[k]) : d \in FirstDay .. LastDay, k \in DOMAIN ClockTimes}

\* the interval in effect for the slot on the date, by C20's cases
EffectiveOn(slot, d) ==
    IF OverridesOn(slot, d) # {}
    THEN slot.time_override[CHOOSE o \in OverridesOn(slot, d) : TRUE].time_interval
    ELSE slot.time_period.time_interval

HasEffectiveOn(slot, d) ==
    OverridesOn(slot, d) # {} \/ CoversDate(slot.time_period, d)

\* the slots that may still start on now.date: enabled, in effect on the
\* date, and starting at now.time or later
Upcoming(now) ==
    {i \in DOMAIN timeslots :
        /\ timeslots[i].enabled
        /\ HasEffectiveOn(timeslots[i], now.date)
        /\ ShiftedMinutes(EffectiveOn(timeslots[i], now.date).start)
               >= ShiftedMinutes(now.time)}

\* C21: for every table and instant, find_next_timeslot returns none exactly
\* when no enabled slot has an effective interval on the date that starts at
\* now.time or later; otherwise it returns such a slot, one with the
\* smallest start and, among equal starts, the smallest id, together with
\* its effective interval, state and override id
C21_NextActive ==
    \A now \in Instants :
        LET next == find_next_timeslot(timeslots, now)
        IN /\ next.some <=> Upcoming(now) # {}
           /\ next.some =>
                  /\ next.id \in Upcoming(now)
                  /\ next.time_interval = EffectiveOn(timeslots[next.id], now.date)
                  /\ next.actuator_state = timeslots[next.id].actuator_state
                  /\ next.override_id =
                         (IF OverridesOn(timeslots[next.id], now.date) = {} THEN None
                          ELSE CHOOSE o \in OverridesOn(timeslots[next.id], now.date) : TRUE)
                  /\ \A j \in Upcoming(now) :
                         LET mine == ShiftedMinutes(next.time_interval.start)
                             other == ShiftedMinutes(
                                          EffectiveOn(timeslots[j], now.date).start)
                         IN mine < other \/ (mine = other /\ next.id <= j)

\* a disabled slot starts at 05:00 and an enabled one at 23:00 on the first
\* day: at 04:00 the search passes over the first and returns the second,
\* and at 02:00 it returns none
C21_DisabledPassedOver ==
    \E i, j \in DOMAIN timeslots :
        /\ ~timeslots[i].enabled
        /\ HasEffectiveOn(timeslots[i], FirstDay)
        /\ EffectiveOn(timeslots[i], FirstDay).start = T0500
        /\ timeslots[j].enabled
        /\ find_next_timeslot(timeslots, DateTime(FirstDay, TimeMIN)).some
        /\ find_next_timeslot(timeslots, DateTime(FirstDay, TimeMIN)).id = j
        /\ find_next_timeslot(timeslots, DateTime(FirstDay, TimeMIN)).time_interval.start = T2300
        /\ ~find_next_timeslot(timeslots, DateTime(FirstDay, T0200)).some

\* ------------------------------------------------------------------------
\* Functions of time.rs and schedule.rs evaluated on their own
\* ------------------------------------------------------------------------

\* valid times of day: every hour, at the first minutes and the last
EvalTimes == {Time(h, m) : h \in 0 .. 23, m \in {0, 1, 59}}

\* date ranges of 1, 2, 6, 7 and 8 days starting on each day of a week, and
\* the range of all dates
EvalRanges ==
    {DateRange(st, st + len) : st \in FirstDay .. FirstDay + 6, len \in {0, 1, 5, 6, 7}}
        \cup {Always}

EvalDays == {AllDays, {0}, {6}, {1, 2}, {0, 6}, {3}}

\* valid periods; the time interval plays no part in overlaps_dates
EvalPeriods ==
    {TimePeriod(TimeInterval(T0500, T2300), dr, days) : dr \in EvalRanges, days \in EvalDays}

\* date ranges of 1 to 9 days starting on each day of two weeks, one of them
\* before 0001-01-01, and the range of all dates
WeekdayRanges ==
    {DateRange(st, st + len) : st \in (FirstDay .. FirstDay + 6) \cup (-20 .. -14),
                               len \in 0 .. 8}
        \cup {Always}

EvalCall(fn, a, b) == [fn |-> fn, args |-> <<a, b>>, done |-> FALSE, res |-> 0]

EvalInit ==
    /\ Constructed(ActuatorTypes)
    /\ server = ServerNew
    /\ eval \in {EvalCall("cmp", a, b) : a, b \in EvalTimes}
               \cup {EvalCall("overlaps_dates", p, q) : p, q \in EvalPeriods}
               \cup {EvalCall("weekday_set", r, None) : r \in WeekdayRanges}

EvalReturn(res) ==
    /\ ~eval.done
    /\ eval' = [eval EXCEPT !.done = TRUE, !.res = res]
    /\ UNCHANGED <<info, server, actuator_vars, lock_vars, comm_vars, rpc, ncalls, reader, clock,
                   late, worker, sink, emitted>>

\* a.cmp(&b)
EvalCmp ==
    /\ eval.fn = "cmp"
    /\ EvalReturn(TimeCmp(eval.args[1], eval.args[2]))

\* p.overlaps_dates(&q)
EvalOverlapsDates ==
    /\ eval.fn = "overlaps_dates"
    /\ EvalReturn(overlaps_dates(eval.args[1], eval.args[2]))

\* r.weekday_set()
EvalWeekdaySet ==
    /\ eval.fn = "weekday_set"
    /\ EvalReturn(weekday_set(eval.args[1]))

EvalNext == EvalCmp \/ EvalOverlapsDates \/ EvalWeekdaySet

EvalSpec == EvalInit /\ [][EvalNext]_vars

\* ------------------------------------------------------------------------
\* Properties of the order on times
\* ------------------------------------------------------------------------

\* minutes since 04:00: the hour rotated by -4 mod 24, then the minute
Rotated(t) == (IF t.hour >= 4 THEN t.hour - 4 ELSE t.hour + 20) * 60 + t.minute

Sign(n) == IF n < 0 THEN -1 ELSE IF n > 0 THEN 1 ELSE 0

\* C22: the comparison of two valid times is the comparison of their hours
\* rotated by -4 mod 24 and then of their minutes; it is therefore a total
\* order (equal only on equal times, antisymmetric, transitive) in which
\* 04:00 is the least time and 03:59 the greatest, and
\* 05:00 < 23:00 < 02:00 < 03:59
C22_ShiftedOrder ==
    (eval.fn = "cmp" /\ eval.done) =>
        LET a == eval.args[1]
            b == eval.args[2]
        IN /\ eval.res = Sign(Rotated(a) - Rotated(b))
           /\ eval.res = 0 <=> a = b
           /\ TimeCmp(b, a) = 0 - eval.res
           /\ \A c \in EvalTimes :
                  (eval.res <= 0 /\ TimeCmp(b, c) <= 0) => TimeCmp(a, c) <= 0
           /\ TimeCmp(Time(4, 0), a) <= 0
           /\ TimeCmp(a, Time(3, 59)) <= 0
           /\ TimeLT(T0500, T2300) /\ TimeLT(T2300, T0200) /\ TimeLT(T0200, Time(3, 59))
           /\ TimeMIN = Time(4, 0) /\ TimeMAX = Time(3, 59)

\* 23:00 was compared with 02:00 and found smaller
C22_EveningBeforeNight ==
    /\ eval.fn = "cmp"
    /\ eval.done
    /\ eval.args = <<T2300, T0200>>
    /\ eval.res = -1

\* ------------------------------------------------------------------------
\* Properties of the validity of time intervals
\* ------------------------------------------------------------------------

\* ends offered for an interval: valid times around midnight and around the
\* start of the day, a minute of 60, an hour of 24 and the sentinel
IntervalTimes ==
    {T2300, Time(0, 0), Time(3, 0), Time(3, 59), Time(4, 0), T0500,
     Time(5, 60), Time(24, 0), TimeEMPTY}

IntervalPeriods ==
    {TimePeriod(TimeInterval(st, en), OnDay(FirstDay), AllDays) : st, en \in IntervalTimes}

\* a slot is added with any of the intervals, and overrides are added to it
IntervalNext ==
    \/ /\ ncalls < MaxCalls
       /\ ncalls' = ncalls + 1
       /\ \/ \E tp \in IntervalPeriods : AddTimeSlot(tp, Toggle(1), TRUE)
          \/ \E tp \in IntervalPeriods : TimeSlotAddTimeOverride(0, tp)
    \/ RpcProgress(FALSE)

IntervalSpec == Init /\ [][IntervalNext]_vars

\* both ends are times of day and the start is before the end, counted from
\* 04:00
ValidInterval(r) ==
    /\ r.start.hour < 24 /\ r.start.minute < 60
    /\ r.end.hour < 24 /\ r.end.minute < 60
    /\ Rotated(r.start) < Rotated(r.end)

\* C23: add_time_slot and time_slot_add_time_override, given a period with
\* valid dates and weekdays, return InvalidArgument(TimePeriod) exactly when
\* the interval is not valid, that is unless both ends are valid times and
\* the start is before the end in the shifted order; 23:00-03:00 is valid,
\* an interval with equal ends and 03:00-05:00 are not
C23_IntervalValidity ==
    [][\A tp \in IntervalPeriods :
          /\ AddTimeSlot(tp, Toggle(1), TRUE) =>
                 (rpc'.res = InvalidArgument("TimePeriod")
                      <=> ~ValidInterval(tp.time_interval))
          /\ TimeSlotAddTimeOverride(0, tp) =>
                 (rpc'.res = InvalidArgument("TimePeriod")
                      <=> ~ValidInterval(tp.time_interval))
          /\ TimeIntervalValid(tp.time_interval) <=> ValidInterval(tp.time_interval)
          /\ TimeIntervalValid(TimeInterval(T2300, Time(3, 0)))
          /\ ~TimeIntervalValid(TimeInterval(T2300, T2300))
          /\ ~TimeIntervalValid(TimeInterval(Time(3, 0), T0500))]_vars

\* a slot holds 23:00-03:00 and an override of it was refused for its period
C23_MidnightKeptBoundaryRefused ==
    /\ 0 \in DOMAIN timeslots
    /\ timeslots[0].time_period.time_interval = TimeInterval(T2300, Time(3, 0))
    /\ rpc.op = "time_slot_add_time_override"
    /\ rpc.res = InvalidArgument("TimePeriod")

\* ------------------------------------------------------------------------
\* Properties of the overlap on dates
\* ------------------------------------------------------------------------

\* dates around the ranges of EvalRanges: four weeks
EvalDates == 1 .. 28

\* some date is in both ranges and on a weekday of both periods
SharedDate(p, q) ==
    \E d \in EvalDates :
        /\ p.date_range.start <= d /\ d <= p.date_range.end
        /\ q.date_range.start <= d /\ d <= q.date_range.end
        /\ num_days_from_monday(d) \in p.days \cap q.days

\* the general path of overlaps_dates, taken whatever the weekday sets are
GeneralPath(p, q) ==
    LET intersection == DateRangeIntersection(p.date_range, q.date_range)
    IN /\ intersection.some
       /\ (weekday_set(intersection) \cap p.days \cap q.days) # {}

\* C24: for two valid periods, overlaps_dates is true exactly when some
\* date lies in both date ranges on a weekday of both weekday sets; the
\* general path gives the same answer as the fast path for full weekday
\* sets, and the arguments can be exchanged
C24_OverlapsDates ==
    (eval.fn = "overlaps_dates" /\ eval.done) =>
        LET p == eval.args[1]
            q == eval.args[2]
        IN /\ TimePeriodValid(p) /\ TimePeriodValid(q)
           /\ eval.res <=> SharedDate(p, q)
           /\ eval.res <=> GeneralPath(p, q)
           /\ eval.res <=> overlaps_dates(q, p)

\* two ranges that share a Sunday and the Monday after it only, for a period
\* on Mondays and one on Mondays and Sundays, were found to overlap
C24_WrappedWeek ==
    /\ eval.fn = "overlaps_dates"
    /\ eval.done
    /\ eval.res
    /\ eval.args[1].days = {0}
    /\ eval.args[2].days = {0, 6}
    /\ DateRangeIntersection(eval.args[1].date_range, eval.args[2].date_range)
           = [some |-> TRUE, start |-> 13, end |-> 14]

\* ------------------------------------------------------------------------
\* Properties of set_state
\* ------------------------------------------------------------------------

\* C25: set_state with a state of the actuator's type writes that state to
\* the controller and changes nothing else: the slot table, default_state,
\* the id counters, the ActiveTimeSlot and the modified flag stay as they
\* were, and the worker is neither notified nor moved
C25_SetStateWritesSinkOnly ==
    [][\A s \in States :
          (SetState(s) /\ TypeCompatible(info, s)) =>
              /\ sink'.state = s
              /\ timeslots' = timeslots
              /\ default_state' = default_state
              /\ next_timeslot_id' = next_timeslot_id
              /\ next_override_id' = next_override_id
              /\ thread_comm' = thread_comm
              /\ signalled' = signalled
              /\ worker' = worker
              /\ emitted' = emitted]_vars

\* the controller holds a state written by set_state while the schedule
\* holds another and no change is pending for the worker
C25_SinkOverridden ==
    /\ sink.by = "rpc"
    /\ sink.state = Toggle(1)
    /\ thread_comm.active_timeslot.actuator_state = Toggle(0)
    /\ ~thread_comm.modified
    /\ ~signalled
    /\ reader = "idle"

\* ------------------------------------------------------------------------
\* Properties of the ActiveTimeSlot
\* ------------------------------------------------------------------------

\* the state the schedule prescribes for the ActiveTimeSlot's case
PrescribedState(active) ==
    IF active.state.tag = "DefaultStateActive" THEN default_state
    ELSE timeslots[active.state.id].actuator_state

\* the ActiveTimeSlot left by set_default_state(s) run from the current state
SetDefaultStateNow(s) ==
    AfterCall(set_default_state(Self, info, s), thread_comm.active_timeslot, clock).active

\* the ActiveTimeSlot left by time_slot_set_actuator_state(id, s)
SetActuatorStateNow(id, s) ==
    AfterCall(time_slot_set_actuator_state(Self, info, id, s),
              thread_comm.active_timeslot, clock).active

\* C26: whenever no mutation is in progress, the ActiveTimeSlot's
\* actuator_state is default_state if the default state is active and the
\* actuator_state of slot id if slot id is active (a slot of the table);
\* set_default_state(s) replaces it by s exactly if the default state is
\* active and time_slot_set_actuator_state(id, s) exactly if slot id is
\* active, and otherwise they leave the ActiveTimeSlot as it is
C26_ActiveStateFollowsTable ==
    rpc.pc = "idle" =>
        LET active == thread_comm.active_timeslot
        IN /\ active.state.tag = "TimeSlotActive" => active.state.id \in DOMAIN timeslots
           /\ active.actuator_state = PrescribedState(active)
           /\ \A s \in States :
                  TypeCompatible(info, s) =>
                      /\ SetDefaultStateNow(s) =
                             (IF active.state.tag = "DefaultStateActive"
                              THEN [active EXCEPT !.actuator_state = s] ELSE active)
                      /\ \A id \in DOMAIN timeslots :
                             SetActuatorStateNow(id, s) =
                                 (IF active.state.tag = "TimeSlotActive"
                                         /\ active.state.id = id
                                  THEN [active EXCEPT !.actuator_state = s] ELSE active)

\* a slot is active with the state it was given by a later
\* time_slot_set_actuator_state, while the default state is another
C26_ActiveSlotRestated ==
    /\ rpc.pc = "done"
    /\ rpc.op = "time_slot_set_actuator_state"
    /\ rpc.res = Ok(None)
    /\ thread_comm.active_timeslot.state.tag = "TimeSlotActive"
    /\ thread_comm.active_timeslot.actuator_state # default_state
    /\ thread_comm.active_timeslot.actuator_state =
           timeslots[thread_comm.active_timeslot.state.id].actuator_state

\* the ActiveTimeSlot agrees with the slot table on the date: its end_time
\* and override id are those of the effective interval of its slot
EndTimeConsistent(active, date) ==
    IF active.state.tag = "TimeSlotActive"
    THEN /\ active.state.id \in DOMAIN timeslots
         /\ time_interval_on(timeslots[active.state.id], date).some
         /\ active.end_time = time_interval_on(timeslots[active.state.id], date).time_interval.end
         /\ active.state.override_id = time_interval_on(timeslots[active.state.id], date).override_id
    ELSE IF active.state.id # None
    THEN /\ active.state.id \in DOMAIN timeslots
         /\ time_interval_on(timeslots[active.state.id], date).some
         /\ active.end_time =
                time_interval_on(timeslots[active.state.id], date).time_interval.start
    ELSE active.end_time = TimeMAX

\* C27: whenever every thread is at rest (no handler runs and the worker
\* sleeps with its timeout ahead), the ActiveTimeSlot's end_time is the end
\* of the active slot's effective interval on the current date (its
\* override_id naming the override in effect, if any), the start of the next
\* slot's effective interval on the current date, or Time::MAX when there is
\* no next slot
C27_EndTimeConsistent ==
    (rpc.pc = "idle" /\ Quiescent /\ worker.pc = "waiting") =>
        EndTimeConsistent(thread_comm.active_timeslot, clock.date)

\* ------------------------------------------------------------------------
\* Properties of the signalling of the worker
\* ------------------------------------------------------------------------

\* C28: a handler that reaches update_active_timeslot_and_notify stores the
\* ActiveTimeSlot given by its incremental update; exactly if that differs
\* from the stored one it sets the modified flag and notifies the worker
\* waiting on the condition variable, and otherwise the comm record and the
\* notification are left as they were, so that nothing new is emitted; the
\* part of a handler before that call never touches them
C28_SignalledIffChanged ==
    [][/\ (rpc.pc = "update" /\ rpc'.pc = "done") =>
              LET updated == ApplyUpdate(rpc.update, thread_comm.active_timeslot, Self, clock)
              IN /\ thread_comm'.active_timeslot = updated
                 /\ updated # thread_comm.active_timeslot =>
                        /\ thread_comm'.modified
                        /\ worker.pc = "waiting" => signalled'
                        /\ hist' = Append(hist, updated.actuator_state)
                 /\ updated = thread_comm.active_timeslot =>
                        /\ thread_comm' = thread_comm
                        /\ signalled' = signalled
                        /\ hist' = hist
       /\ (rpc.pc = "idle" /\ rpc'.pc # "idle") =>
              /\ thread_comm' = thread_comm
              /\ signalled' = signalled
              /\ hist' = hist]_vars

\* a successful time_slot_set_actuator_state has run its update while the
\* default state is active: the flag is clear and the worker sleeps on
C28_UnchangedUnsignalled ==
    /\ rpc.pc = "done"
    /\ rpc.op = "time_slot_set_actuator_state"
    /\ rpc.res = Ok(None)
    /\ thread_comm.active_timeslot.state.tag = "DefaultStateActive"
    /\ ~thread_comm.modified
    /\ ~signalled
    /\ worker.pc = "waiting"

\* ------------------------------------------------------------------------
\* server.rs: the Server, its actuators and their schedules
\* ------------------------------------------------------------------------

ServerOutcome(res, srv) == [res |-> res, server |-> srv]

\* ValidCheck for Actuator
ServerActuatorValid(actuator_type) ==
    actuator_type.tag = "Toggle" \/ actuator_type.min < actuator_type.max

\* Schedule::new
ScheduleNew(state) == [timeslots |-> [i \in {} |-> 0], default_state |-> state]

server_add_actuator(srv, actuator_type, state) ==
    IF ~(ServerActuatorValid(actuator_type) /\ valid_state(actuator_type, state))
    THEN ServerOutcome(InvalidArgument("ActuatorState"), srv)
    ELSE ServerOutcome(
             Ok(srv.next_actuator_id),
             [srv EXCEPT
                 !.actuators = MapInsert(@, srv.next_actuator_id, actuator_type),
                 !.schedules = MapInsert(@, srv.next_actuator_id, ScheduleNew(state)),
                 !.next_actuator_id = @ + 1])

\* the actuator leaves `actuators`; its schedule stays in `schedules`
server_remove_actuator(srv, actuator_id) ==
    IF actuator_id \in DOMAIN srv.actuators
    THEN ServerOutcome(Ok(None), [srv EXCEPT !.actuators = MapRemove(@, actuator_id)])
    ELSE ServerOutcome(InvalidArgument("ActuatorId"), srv)

server_get_schedule(srv, actuator_id) ==
    IF actuator_id \in DOMAIN srv.schedules
    THEN ServerOutcome(Ok(None), srv)
    ELSE ServerOutcome(InvalidArgument("ActuatorId"), srv)

server_set_default_state(srv, actuator_id, state) ==
    IF actuator_id \notin DOMAIN srv.actuators
    THEN ServerOutcome(InvalidArgument("ActuatorId"), srv)
    ELSE IF ~valid_state(srv.actuators[actuator_id], state)
    THEN ServerOutcome(InvalidArgument("ActuatorState"), srv)
    ELSE ServerOutcome(Ok(None),
                       [srv EXCEPT !.schedules[actuator_id].default_state = state])

server_add_time_slot(srv, actuator_id, time_period, state, enabled) ==
    IF ~TimePeriodValid(time_period)
    THEN ServerOutcome(InvalidArgument("TimePeriod"), srv)
    ELSE IF actuator_id \notin DOMAIN srv.actuators
    THEN ServerOutcome(InvalidArgument("ActuatorId"), srv)
    ELSE IF ~valid_state(srv.actuators[actuator_id], state)
    THEN ServerOutcome(InvalidArgument("ActuatorState"), srv)
    ELSE IF FirstOverlap(srv.schedules[actuator_id].timeslots, None, time_period) # None
    THEN ServerOutcome(
             TimeSlotOverlap(
                 FirstOverlap(srv.schedules[actuator_id].timeslots, None, time_period)),
             srv)
    ELSE ServerOutcome(
             Ok(srv.next_timeslot_id),
             [srv EXCEPT
                 !.schedules[actuator_id].timeslots =
                     MapInsert(@, srv.next_timeslot_id,
                               TimeSlotNew(enabled, state, time_period)),
                 !.next_timeslot_id = @ + 1])

server_remove_time_slot(srv, actuator_id, time_slot_id) ==
    IF actuator_id \notin DOMAIN srv.schedules
    THEN ServerOutcome(InvalidArgument("ActuatorId"), srv)
    ELSE IF time_slot_id \in DOMAIN srv.schedules[actuator_id].timeslots
    THEN ServerOutcome(Ok(None),
                       [srv EXCEPT !.schedules[actuator_id].timeslots =
                                       MapRemove(@, time_slot_id)])
    ELSE ServerOutcome(InvalidArgument("TimeSlotId"), srv)

server_time_slot_set_enabled(srv, actuator_id, time_slot_id, enabled) ==
    IF actuator_id \notin DOMAIN srv.schedules
    THEN ServerOutcome(InvalidArgument("ActuatorId"), srv)
    ELSE IF time_slot_id \notin DOMAIN srv.schedules[actuator_id].timeslots
    THEN ServerOutcome(InvalidArgument("TimeSlotId"), srv)
    ELSE ServerOutcome(Ok(None),
                       [srv EXCEPT !.schedules[actuator_id].timeslots[time_slot_id].enabled =
                                       enabled])

\* a call is served: the Server is left as the call leaves it
ServerCall(op, out) ==
    /\ server' = [out.server EXCEPT !.last = [op |-> op, res |-> out.res]]
    /\ UNCHANGED <<info, eval, actuator_vars, lock_vars, comm_vars, rpc, ncalls, reader,
                   clock, late, worker, sink, emitted>>

AddActuator(ty, state) ==
    /\ server.next_actuator_id < MaxActuators
           \/ IsErr(server_add_actuator(server, ty, state).res)
    /\ ServerCall("add_actuator", server_add_actuator(server, ty, state))

RemoveActuator(a) == ServerCall("remove_actuator", server_remove_actuator(server, a))

GetSchedule(a) == ServerCall("get_schedule", server_get_schedule(server, a))

ServerSetDefaultState(a, state) ==
    ServerCall("set_default_state", server_set_default_state(server, a, state))

ServerAddTimeSlot(a, tp, state, en) ==
    /\ server.next_timeslot_id < MaxTimeSlots
           \/ IsErr(server_add_time_slot(server, a, tp, state, en).res)
    /\ ServerCall("add_time_slot", server_add_time_slot(server, a, tp, state, en))

ServerRemoveTimeSlot(a, id) ==
    ServerCall("remove_time_slot", server_remove_time_slot(server, a, id))

ServerTimeSlotSetEnabled(a, id, en) ==
    ServerCall("time_slot_set_enabled", server_time_slot_set_enabled(server, a, id, en))

\* arguments of the calls: registered and unregistered actuator ids, both
\* actuator types, a valid and an invalid period
RegistryInputs ==
    [actuators |-> 0 .. MaxActuators,
     types |-> {TypeToggle, FloatActuator},
     states |-> {Toggle(1), FloatValue(1)},
     periods |-> {TimePeriod(TimeInterval(T0500, T2300), Always, AllDays),
                  TimePeriod(TimeInterval(T0200, T0500), Always, AllDays)},
     ids |-> 0 .. 1]

RegistryNext ==
    \/ \E ty \in RegistryInputs.types, s \in RegistryInputs.states : AddActuator(ty, s)
    \/ \E a \in RegistryInputs.actuators : RemoveActuator(a)
    \/ \E a \in RegistryInputs.actuators : GetSchedule(a)
    \/ \E a \in RegistryInputs.actuators, s \in RegistryInputs.states :
           ServerSetDefaultState(a, s)
    \/ \E a \in RegistryInputs.actuators, tp \in RegistryInputs.periods,
             s \in RegistryInputs.states :
           ServerAddTimeSlot(a, tp, s, TRUE)
    \/ \E a \in RegistryInputs.actuators, id \in RegistryInputs.ids :
           ServerRemoveTimeSlot(a, id)
    \/ \E a \in RegistryInputs.actuators, id \in RegistryInputs.ids, en \in BOOLEAN :
           ServerTimeSlotSetEnabled(a, id, en)

RegistrySpec == Init /\ [][RegistryNext]_vars

\* ------------------------------------------------------------------------
\* Properties of the actuator ids
\* ------------------------------------------------------------------------

\* the actuators, the schedules and the counters are as they were
RegistryUnchanged ==
    /\ server'.actuators = server.actuators
    /\ server'.schedules = server.schedules
    /\ server'.next_actuator_id = server.next_actuator_id
    /\ server'.next_timeslot_id = server.next_timeslot_id
    /\ server'.next_override_id = server.next_override_id

Refused == server'.last.res = InvalidArgument("ActuatorId") /\ RegistryUnchanged

\* C29: add_actuator returns the value of a counter that starts at 0 and
\* only grows, an id above every id in use, so that ids follow the order of
\* insertion and are never reused; and every call that names an actuator id
\* that is not registered (never added, or removed) returns
\* InvalidArgument(ActuatorId) and changes no actuator and no schedule
C29_ActuatorIds ==
    [][/\ \A ty \in RegistryInputs.types, s \in RegistryInputs.states :
              (AddActuator(ty, s) /\ ~IsErr(server'.last.res)) =>
                  /\ server'.last.res = Ok(server.next_actuator_id)
                  /\ server'.next_actuator_id = server.next_actuator_id + 1
                  /\ \A a \in DOMAIN server.actuators \cup DOMAIN server.schedules :
                         a < server.next_actuator_id
       /\ server'.next_actuator_id >= server.next_actuator_id
       /\ \A a \in RegistryInputs.actuators \ DOMAIN server.actuators :
              /\ RemoveActuator(a) => Refused
              /\ GetSchedule(a) => Refused
              /\ \A s \in RegistryInputs.states : ServerSetDefaultState(a, s) => Refused
              /\ \A tp \in RegistryInputs.periods, s \in RegistryInputs.states :
                     ServerAddTimeSlot(a, tp, s, TRUE) => Refused
              /\ \A id \in RegistryInputs.ids :
                     /\ ServerRemoveTimeSlot(a, id) => Refused
                     /\ \A en \in BOOLEAN : ServerTimeSlotSetEnabled(a, id, en) => Refused]_vars

\* ------------------------------------------------------------------------
\* Properties of the timeout path of the worker
\* ------------------------------------------------------------------------

\* the ActiveSlot has been written since the worker took its snapshot
WrittenSinceSnapshot == Len(hist) # worker.snap.ver

\* C30: in the timeout path, with the actuator read lock and the comm mutex
\* held, a worker that finds the modified flag set restarts its loop and
\* leaves the comm record as it is; the worker writes the ActiveSlot only when
\* nothing has written it since its snapshot; and when the flag is clear the
\* snapshot is the authoritative ActiveSlot.
C30_TimeoutRecheck ==
    [][WorkerAdvance =>
           /\ "worker" \in actuator_lock.readers /\ comm_lock = "worker"
           /\ thread_comm.modified =>
                  /\ worker'.pc = "start"
                  /\ UNCHANGED <<thread_comm, hist>>
           /\ (thread_comm' # thread_comm \/ hist' # hist) => ~WrittenSinceSnapshot
           /\ ~thread_comm.modified =>
                  /\ ~WrittenSinceSnapshot
                  /\ worker.snap.active_timeslot = thread_comm.active_timeslot]_vars

\* the worker has timed out, a handler has written the ActiveSlot before the
\* worker took the two locks again, and the worker now holds both and finds
\* the flag set and its snapshot out of date
C30_MutatorWroteMeanwhile ==
    /\ worker.pc = "advance"
    /\ "worker" \in actuator_lock.readers /\ comm_lock = "worker"
    /\ thread_comm.modified
    /\ WrittenSinceSnapshot
    /\ worker.snap.active_timeslot # thread_comm.active_timeslot

\* ------------------------------------------------------------------------
\* Properties of the weekdays of a date range
\* ------------------------------------------------------------------------

\* the weekdays of the dates of a range; the weekdays repeat every 7 days, so
\* the first 14 days of a longer range show them all
WeekdaysOf(r) == {num_days_from_monday(d) : d \in r.start .. Min2(r.end, r.start + 13)}

\* C31: for every valid date range, weekday_set is exactly the set of the
\* weekdays of the dates from start to end inclusive: all seven weekdays iff
\* the range has at least 7 days, otherwise the weekdays from that of start
\* through that of end, wrapping from Sunday to Monday when needed
C31_WeekdaySet ==
    (eval.fn = "weekday_set" /\ eval.done) =>
        LET r == eval.args[1]
            first == num_days_from_monday(r.start)
            last == num_days_from_monday(r.end)
        IN /\ DateRangeValid(r)
           /\ eval.res = WeekdaysOf(r)
           /\ eval.res = AllDays <=> r.end - r.start + 1 >= 7
           /\ r.end - r.start + 1 < 7 =>
                  eval.res = IF first <= last
                             THEN {i \in AllDays : first <= i /\ i <= last}
                             ELSE {i \in AllDays : first <= i \/ i <= last}

\* a range of three days from a Saturday to a Monday: Saturday, Sunday, Monday
C31_WeekendIntoMonday ==
    /\ eval.fn = "weekday_set"
    /\ eval.done
    /\ num_days_from_monday(eval.args[1].start) = 5
    /\ eval.args[1].end = eval.args[1].start + 2
    /\ eval.res = {5, 6, 0}

\* ------------------------------------------------------------------------
\* Removals: two slots that do not overlap, an override for each, and the
\* two removing calls
\* ------------------------------------------------------------------------

RemovalInputs ==
    [periods |-> {TimePeriod(TimeInterval(T0500, T2300), Always, AllDays),
                  TimePeriod(TimeInterval(T2300, T0200), OnDay(FirstDay), AllDays)},
     overrides |-> {TimePeriod(TimeInterval(T0500, T2300),
                               DateRange(FirstDay, FirstDay + 1), AllDays),
                    TimePeriod(TimeInterval(T2300, T0200), Always,
                               {num_days_from_monday(FirstDay + 1)})},
     ids |-> 0 .. MaxTimeSlots,
     oids |-> 0 .. MaxOverrides - 1]

RemovalNext ==
    \/ /\ ncalls < MaxRemovalCalls
       /\ ncalls' = ncalls + 1
       /\ \/ \E tp \in RemovalInputs.periods : AddTimeSlot(tp, Toggle(1), TRUE)
          \/ \E id \in RemovalInputs.ids, tp \in RemovalInputs.overrides :
                 TimeSlotAddTimeOverride(id, tp)
          \/ \E id \in RemovalInputs.ids : RemoveTimeSlot(id)
          \/ \E id \in RemovalInputs.ids, oid \in RemovalInputs.oids :
                 TimeSlotRemoveTimeOverride(id, oid)
    \/ RpcProgress(FALSE)

RemovalSpec == Init /\ [][RemovalNext]_vars

\* the default state and the two id counters are as they were
RestOfTableKept ==
    UNCHANGED <<default_state, next_timeslot_id, next_override_id>>

\* C32: remove_time_slot(id) returns InvalidArgument(TimeSlotId) iff id is not
\* in the slot table and otherwise removes that slot, with its overrides, and
\* no other; time_slot_remove_time_override(sid, oid) returns
\* InvalidArgument(TimeSlotId) when sid is absent, InvalidArgument(TimeOverrideId)
\* when slot sid has no override oid, whether or not another slot has one, and
\* otherwise removes that override and no other; every other slot and
\* override is unchanged
C32_Removals ==
    [][\A id \in RemovalInputs.ids :
          /\ RemoveTimeSlot(id) =>
                 /\ RestOfTableKept
                 /\ IF id \notin DOMAIN timeslots
                    THEN /\ rpc'.res = InvalidArgument("TimeSlotId")
                         /\ timeslots' = timeslots
                    ELSE /\ rpc'.res = Ok(None)
                         /\ DOMAIN timeslots' = DOMAIN timeslots \ {id}
                         /\ \A j \in DOMAIN timeslots' : timeslots'[j] = timeslots[j]
          /\ \A oid \in RemovalInputs.oids :
                 TimeSlotRemoveTimeOverride(id, oid) =>
                     /\ RestOfTableKept
                     /\ IF id \notin DOMAIN timeslots
                        THEN /\ rpc'.res = InvalidArgument("TimeSlotId")
                             /\ timeslots' = timeslots
                        ELSE IF oid \notin DOMAIN timeslots[id].time_override
                        THEN /\ rpc'.res = InvalidArgument("TimeOverrideId")
                             /\ timeslots' = timeslots
                        ELSE /\ rpc'.res = Ok(None)
                             /\ DOMAIN timeslots' = DOMAIN timeslots
                             /\ \A j \in DOMAIN timeslots \ {id} :
                                    timeslots'[j] = timeslots[j]
                             /\ timeslots'[id].time_period = timeslots[id].time_period
                             /\ timeslots'[id].enabled = timeslots[id].enabled
                             /\ timeslots'[id].actuator_state =
                                    timeslots[id].actuator_state
                             /\ DOMAIN timeslots'[id].time_override =
                                    DOMAIN timeslots[id].time_override \ {oid}
                             /\ \A o \in DOMAIN timeslots'[id].time_override :
                                    timeslots'[id].time_override[o] =
                                        timeslots[id].time_override[o]]_vars

\* slots 0 and 1 hold one override each, 0 and 1, and a removal of an override
\* from one of them has just been refused: the override named is the one of
\* the other slot
C32_OverrideOfOtherSlot ==
    /\ DOMAIN timeslots = {0, 1}
    /\ \E a, b \in {0, 1} :
           /\ a # b
           /\ DOMAIN timeslots[0].time_override = {a}
           /\ DOMAIN timeslots[1].time_override = {b}
    /\ rpc.op = "time_slot_remove_time_override"
    /\ rpc.res = InvalidArgument("TimeOverrideId")

\* ------------------------------------------------------------------------
\* Properties of the slots the ActiveTimeSlot names
\* ------------------------------------------------------------------------

\* the active timeslot names, as active or as next, a slot of the table that
\* is disabled
NamesDisabledSlot(active) ==
    /\ active.state.id # None
    /\ active.state.id \in DOMAIN timeslots
    /\ ~timeslots[active.state.id].enabled

\* C33: a disabled slot is never the source of truth. Whenever no handler is
\* running, the ActiveTimeSlot names no disabled slot, neither as the active
\* slot nor as the next one; and the worker never pushes to the sink the state
\* of an active timeslot that names a disabled slot as active
C33_DisabledNeverActive ==
    [][/\ rpc'.pc = "idle" => ~NamesDisabledSlot(thread_comm.active_timeslot)'
       /\ WorkerPush =>
              ~(/\ worker.snap.active_timeslot.state.tag = "TimeSlotActive"
                /\ NamesDisabledSlot(worker.snap.active_timeslot))]_vars

\* ------------------------------------------------------------------------
\* Properties of the promotion of the next timeslot
\* ------------------------------------------------------------------------

\* C34: the worker's timeout promotion never fails. Whenever the worker takes
\* the timeout branch, with both guards held and the flag clear, holding a
\* snapshot DefaultStateActive{next_id = Some(id)}, slot id is in the table and
\* has an interval on the worker's date, so that neither unwrap panics; the
\* worker thread never dies and the comm mutex is never poisoned
C34_PromotionNeverFails ==
    /\ (/\ worker.pc = "advance"
        /\ ~thread_comm.modified
        /\ worker.snap.active_timeslot.state.tag = "DefaultStateActive"
        /\ worker.snap.active_timeslot.state.id # None)
           => /\ worker.snap.active_timeslot.state.id \in DOMAIN timeslots
              /\ time_interval_on(timeslots[worker.snap.active_timeslot.state.id],
                                  worker.date).some
    /\ worker.pc # "panicked"
    /\ comm_lock # "poisoned"

\* ------------------------------------------------------------------------
\* Properties of the references held by the ActiveTimeSlot
\* ------------------------------------------------------------------------

\* slots, their overrides and the removal of both, with the clock and the
\* worker running: more calls than in Spec, fewer arguments
ReferenceInputs ==
    [periods |-> {TimePeriod(TimeInterval(T0500, T2300), Always, AllDays),
                  TimePeriod(TimeInterval(T2300, T0200), OnDay(FirstDay + 1), AllDays)},
     overrides |-> {TimePeriod(TimeInterval(T2300, T0200), OnDay(FirstDay), AllDays),
                    TimePeriod(TimeInterval(T0500, T0200), OnDay(FirstDay + 1), AllDays)},
     ids |-> 0 .. 1,
     oids |-> 0 .. MaxOverrides - 1]

ReferenceNext ==
    \/ /\ ncalls < MaxReferenceCalls
       /\ ncalls' = ncalls + 1
       /\ \/ \E tp \in ReferenceInputs.periods : AddTimeSlot(tp, Toggle(1), TRUE)
          \/ \E id \in ReferenceInputs.ids, tp \in ReferenceInputs.overrides :
                 TimeSlotAddTimeOverride(id, tp)
          \/ \E id \in ReferenceInputs.ids : RemoveTimeSlot(id)
          \/ \E id \in ReferenceInputs.ids, oid \in ReferenceInputs.oids :
                 TimeSlotRemoveTimeOverride(id, oid)
    \/ RpcProgress(TRUE)
    \/ RpcPoisoned
    \/ Tick
    \/ WorkerStep

ReferenceSpec == Init /\ [][ReferenceNext]_vars

\* the slot and the override the active timeslot names are in the table
RefersToTable(active) ==
    /\ active.state.id # None => active.state.id \in DOMAIN timeslots
    /\ active.state.override_id # None =>
           /\ active.state.id \in DOMAIN timeslots
           /\ active.state.override_id \in DOMAIN timeslots[active.state.id].time_override

\* C35: the ActiveTimeSlot never dangles. Whenever no handler is running,
\* TimeSlotActive{id, override_id} and DefaultStateActive{next_id = Some(id),
\* next_override_id} name a slot of the table and, when the override id is not
\* empty, an override stored on that slot; and the worker takes its timeout
\* branch only with a snapshot of which the same is true
C35_NeverDangles ==
    /\ rpc.pc = "idle" => RefersToTable(thread_comm.active_timeslot)
    /\ (worker.pc = "advance" /\ ~thread_comm.modified) =>
           RefersToTable(worker.snap.active_timeslot)

\* the slot that was active, or next, has been removed and the active
\* timeslot has been replaced by one that names no slot
C35_ActiveSlotRemoved ==
    /\ rpc.op = "remove_time_slot"
    /\ rpc.pc = "done"
    /\ rpc.res = Ok(None)
    /\ timeslots = << >>
    /\ thread_comm.modified
    /\ thread_comm.active_timeslot.state.id = None

\* ------------------------------------------------------------------------
\* Properties of the instant of the timeout advance
\* ------------------------------------------------------------------------

\* the instant at which the active timeslot of the worker's snapshot ends, on
\* the worker's date: end_time, or 04:00 of the next day for Time::MAX
SnapshotEnd ==
    worker.date * 1440 + ShiftedMinutes(worker.snap.active_timeslot.end_time)
        + (IF worker.snap.active_timeslot.end_time = TimeMAX THEN 1 ELSE 0)

\* C36: the worker replaces the ActiveTimeSlot in its timeout branch only
\* when the wall clock has reached the end_time of the ActiveTimeSlot it
\* replaces (for Time::MAX, 04:00 of the next day); and a spurious wake-up
\* that finds the flag clear before end_time leaves the comm record alone
\* and puts the worker back to sleep until the same instant
C36_NoEarlyAdvance ==
    [][/\ (WorkerAdvance /\ thread_comm' # thread_comm) =>
              /\ worker.snap.active_timeslot = thread_comm.active_timeslot
              /\ Instant(clock) >= SnapshotEnd
       /\ (/\ WorkerWakeSpurious
           /\ ~thread_comm.modified
           /\ Instant(clock) < EndInstant(worker)) =>
              /\ worker'.pc = "waiting"
              /\ worker'.deadline = EndInstant(worker) * 60
              /\ UNCHANGED thread_comm]_vars

\* no call was made and the worker has replaced the initial ActiveTimeSlot at
\* the end of the first day; it now sleeps on the second day, an hour after
\* the rollover, where a wake-up without timeout or flag can only find the
\* end of the day ahead
C36_AdvancedAtRollover ==
    /\ ncalls = 0
    /\ Len(hist) = 2
    /\ worker.date = FirstDay + 1
    /\ clock = DateTime(FirstDay + 1, T0500)
    /\ worker.pc = "waiting"
    /\ comm_lock = "free"
    /\ ~signalled
    /\ ~thread_comm.modified
    /\ Instant(clock) < EndInstant(worker)

\* ------------------------------------------------------------------------
\* Properties of slots that follow each other without a gap
\* ------------------------------------------------------------------------

\* slot b is enabled and its interval on the date starts at the time e
StartsAt(b, date, e) ==
    /\ timeslots[b].enabled
    /\ time_interval_on(timeslots[b], date).some
    /\ time_interval_on(timeslots[b], date).time_interval.start = e

\* slot a is enabled and its interval on the date ends at the time e
EndsAt(a, date, e) ==
    /\ timeslots[a].enabled
    /\ time_interval_on(timeslots[a], date).some
    /\ time_interval_on(timeslots[a], date).time_interval.end = e

\* C37: when the enabled slot A is active, its interval of today ends at e and
\* the interval of today of another enabled slot B starts at e, the worker's
\* timeout at e replaces TimeSlotActive{A} by TimeSlotActive{B} with B's end
\* and B's state in one write: no DefaultStateActive value is written in
\* between, so that the default state is not emitted in between
C37_BackToBack ==
    [][\A a, b \in DOMAIN timeslots :
          (/\ WorkerAdvance
           /\ ~thread_comm.modified
           /\ a # b
           /\ worker.snap.active_timeslot.state.tag = "TimeSlotActive"
           /\ worker.snap.active_timeslot.state.id = a
           /\ EndsAt(a, clock.date, worker.snap.active_timeslot.end_time)
           /\ StartsAt(b, clock.date, worker.snap.active_timeslot.end_time)) =>
              /\ thread_comm'.active_timeslot =
                     ats_timeslot(b,
                                  time_interval_on(timeslots[b], clock.date).override_id,
                                  time_interval_on(timeslots[b], clock.date).time_interval.end,
                                  timeslots[b].actuator_state)
              /\ thread_comm'.modified
              /\ hist' = Append(hist, timeslots[b].actuator_state)]_vars

\* ------------------------------------------------------------------------
\* Properties of the calls that name a slot that is not in the table
\* ------------------------------------------------------------------------

\* C38: time_slot_set_time_period, time_slot_add_time_override,
\* time_slot_set_enabled and time_slot_set_actuator_state, called with a slot
\* id that is not in the table, return InvalidArgument(TimeSlotId) whatever
\* their other arguments and the other slots are; in particular they never
\* return TimeSlotOverlap of some other slot
C38_UnknownSlotId ==
    [][\A id \in TableInputs.ids \ DOMAIN timeslots :
          /\ \A patch \in TableInputs.patches :
                 TimeSlotSetTimePeriod(id, patch) =>
                     rpc'.res = InvalidArgument("TimeSlotId")
          /\ \A tp \in TableInputs.overrides :
                 TimeSlotAddTimeOverride(id, tp) =>
                     rpc'.res = InvalidArgument("TimeSlotId")
          /\ \A en \in BOOLEAN :
                 TimeSlotSetEnabled(id, en) => rpc'.res = InvalidArgument("TimeSlotId")
          /\ \A st \in TableInputs.states :
                 TimeSlotSetActuatorState(id, st) =>
                     rpc'.res = InvalidArgument("TimeSlotId")]_vars

\* ------------------------------------------------------------------------
\* Properties of a new actuator
\* ------------------------------------------------------------------------

\* C39: a new actuator has the ActiveTimeSlot DefaultStateActive{next_id =
\* None} until Time::MAX with its default state and the flag clear; and as
\* long as the ActiveTimeSlot has not been written, by a mutation that
\* changes it or by a timeout advance of the worker, the comm record is as it
\* was constructed and nothing is pushed to the sink: the initial default
\* state is not pushed at startup
C39_NothingPushedAtStartup ==
    Len(hist) = 1 =>
        /\ thread_comm.active_timeslot =
               ActiveTimeSlot(DefaultStateActive(None, None), TimeMAX, InitialState(info))
        /\ ~thread_comm.modified
        /\ worker.pc \notin {"emit", "push"}
        /\ emitted = <<>>
        /\ sink.by = "none"

\* the worker has slept through the first day up to its last hours, a call
\* was served that left the ActiveTimeSlot as it was, and nothing was pushed
C39_QuietFirstDay ==
    /\ Len(hist) = 1
    /\ clock = DateTime(FirstDay, T0200)
    /\ worker.pc = "waiting"
    /\ ncalls > 0
    /\ rpc.pc = "idle"
    /\ emitted = <<>>
    /\ sink.by = "none"

====
